---- MODULE Spec2Model ----
(***************************************************************************)
(* The render graph of goldfish (crates/goldfish/src/engine/renderer/      *)
(* render_graph.rs): the per-frame graph built through PassBuilder, the    *)
(* long-lived RenderGraphCache, and RenderGraph::execute (dependency       *)
(* resolution, virtual-to-physical allocation, barrier emission, replay);  *)
(* and the frame pacing and deferred destruction of its Vulkan backend     *)
(* (backends/vulkan/swapchain.rs, device.rs).                              *)
(*                                                                         *)
(* Ids are 1-based here (a Rust index i is i + 1), so that usize::MAX, the  *)
(* sentinel index of the output render pass, is OUTPUT_SENTINEL = 0.       *)
(***************************************************************************)
EXTENDS Integers, Sequences, FiniteSets, TLC

(***************************************************************************)
(* Bounds of the model.                                                    *)
(***************************************************************************)
MaxPasses == 3
MaxResources == 4
MaxFrames == 3
MaxSubmits == 3
MaxQueued == 2
MaxImages == 2

(***************************************************************************)
(* Program constants.                                                      *)
(***************************************************************************)
max_sets == 128

MAX_FRAMES_IN_FLIGHT == 2

OUTPUT_SENTINEL == 0

(***************************************************************************)
(* Inputs of the caller: the descriptors it may pass to the builder.       *)
(***************************************************************************)
DepthDesc ==
    [width |-> 800, height |-> 600, format |-> "Depth", usage |-> "SAMPLED|ATTACHMENT",
     load_op |-> "Clear", store_op |-> "Store"]
ColorDesc ==
    [width |-> 512, height |-> 512, format |-> "RGBA8UNorm", usage |-> "SAMPLED|ATTACHMENT",
     load_op |-> "Clear", store_op |-> "Store"]
MaxDepthDesc ==
    [width |-> 800, height |-> 600, format |-> "RGBA8UNorm", usage |-> "SAMPLED|STORAGE",
     load_op |-> "Clear", store_op |-> "Store"]
AttachmentDescs == {DepthDesc, ColorDesc, MaxDepthDesc}

\* AttachmentCacheKey of an attachment: name, load_op and store_op are no part of it
AttachmentCacheKey(r) ==
    [width |-> r.width, height |-> r.height, format |-> r.format, usage |-> r.usage]
AttachmentKeys == {AttachmentCacheKey(d) : d \in AttachmentDescs}

StorageDesc == [size |-> 64, usage |-> "STORAGE", location |-> "GpuOnly"]
BufferDescs == {StorageDesc}

\* BufferCacheKey of a buffer
BufferCacheKey(r) == [size |-> r.size, usage |-> r.usage, location |-> r.location]
BufferKeys == {BufferCacheKey(d) : d \in BufferDescs}

DescriptorLayouts == {"COMMON_DESC_INFO", "LIGHT_CULL_DESC_INFO", "FULLSCREEN_DESC_INFO"}
ImportedBuffers == {"camera_uniform", "model_uniform", "point_lights_sbuffer", "light_cull_cbuffer"}
Textures == {"blue_noise"}
Shaders == {"vs", "vs_fullscreen"}
Meshes == {"cube"}

(***************************************************************************)
(* Small helpers on sequences and sets.                                    *)
(***************************************************************************)
Range(s) == {s[i] : i \in DOMAIN s}

Perms(S) == {s \in [1..Cardinality(S) -> S] : \A i, j \in DOMAIN s : i # j => s[i] # s[j]}

Reverse(s) == [i \in DOMAIN s |-> s[Len(s) + 1 - i]]

Max(a, b) == IF a >= b THEN a ELSE b

RECURSIVE SortedSeq(_)
SortedSeq(S) ==
    IF S = {} THEN <<>>
    ELSE LET m == CHOOSE x \in S : \A y \in S : x <= y
         IN <<m>> \o SortedSeq(S \ {m})

(***************************************************************************)
(* The state.                                                              *)
(***************************************************************************)
VARIABLES
    passes,                  \* RenderGraph.passes
    recorded,                \* PassBuilder.recorded of the open builder: <<>> or <<RecordedPass>>
    owned_resources,         \* RenderGraph.owned_resources
    resource_to_owning_pass, \* RenderGraph.resource_to_owning_pass
    imported_resources,      \* RenderGraph.imported_resources
    handles,                 \* the caller's Mutable*Handle of each owned resource
    cache,                   \* RenderGraphCache
    pc,                      \* where execute() is, or how the process ended
    pass_order,              \* execute(): `passes` after reverse and retain
    resource_map,            \* GraphPhysicalResourceMap
    replayed,                \* number of passes of pass_order already replayed
    ctx,                     \* calls received by the GraphicsContext, in order
    device,                  \* objects created through the GraphicsDevice in this execution
    frame,                   \* number of the graph being built or executed
    demands,                 \* per execution so far, the number of virtual resources per cache key
    script,                  \* builder calls the caller's frame code has still to make
    previous,                \* <<>> or <<the graph, cache and resource map the last frame ended with>>
    per_frame,               \* VulkanDevice.frame: VulkanPerFrameData behind its Mutex
    fences,                  \* VulkanFrame.completed_fence of each frame slot: signaled or not
    command_pools,           \* VulkanFrame.command_pool of each frame slot
    images,                  \* SwapchainImage.available_fence of each swapchain image
    current_frame_info,      \* VulkanGraphicsContext.current_frame_info: <<>> or <<FrameInfo>>
    swap_pc,                 \* where acquire() is, or how the device ended
    image_index,             \* acquire(): the index acquire_next_image returned
    in_flight,               \* frames submitted to the graphics queue and not yet completed
    submitted,               \* number of frames submitted so far
    update_pc,               \* where Game::update is between begin_frame and end_frame
    awaited,                 \* per queued destructor, the frames in flight when it was queued
    runs,                    \* the run_destructor calls made, in order
    descriptor_heap,         \* a VulkanDescriptorHeap of its own, made by create_descriptor_heap
    heap_calls               \* the alloc and free calls made on it, with what they returned

heap_vars == <<descriptor_heap, heap_calls>>

pacer_vars == <<per_frame, fences, command_pools, images, current_frame_info, swap_pc,
                image_index, in_flight, submitted, update_pc, awaited, runs>>

vars == <<passes, recorded, owned_resources, resource_to_owning_pass, imported_resources,
          handles, cache, pc, pass_order, resource_map, replayed, ctx, device, frame,
          demands, script, previous, heap_vars, pacer_vars>>

render_vars == <<passes, recorded, owned_resources, resource_to_owning_pass, imported_resources,
                 handles, cache, pc, pass_order, resource_map, replayed, ctx, device, frame,
                 demands, script, previous, heap_vars>>

render_vars_but_heap == <<passes, recorded, owned_resources, resource_to_owning_pass,
                          imported_resources, handles, cache, pc, pass_order, resource_map,
                          replayed, ctx, device, frame, demands, script, previous>>

graph_vars == <<passes, recorded, owned_resources, resource_to_owning_pass,
                imported_resources, handles>>

exec_vars == <<cache, pass_order, resource_map, replayed, ctx, device, demands>>

(***************************************************************************)
(* Handles.                                                                *)
(***************************************************************************)
SHADER_STAGES == "VERTEX_SHADER|FRAGMENT_SHADER|COMPUTE_SHADER"

NewAttachmentHandle(id) ==
    [id |-> id, layout |-> "Undefined", stage |-> "empty", access |-> "empty"]

NewBufferHandle(id) == [id |-> id, stage |-> "empty", access |-> "empty"]

NoHandle == [id |-> 0]

ReadAttachment(h) ==
    [id |-> h.id,
     src_stage |-> h.stage,
     src_access |-> h.access,
     initial_layout |-> h.layout,
     dst_stage |-> SHADER_STAGES,
     dst_access |-> "SHADER_READ",
     final_layout |-> "ShaderReadOnlyOptimal"]

ReadBuffer(h) ==
    [id |-> h.id,
     src_stage |-> h.stage,
     src_access |-> h.access,
     dst_stage |-> SHADER_STAGES,
     dst_access |-> "SHADER_READ"]

\* A color attachment whose handle add_render_pass leaves as the caller set it
ColorOutputUnset(h) == h

ColorOutput(h) ==
    [h EXCEPT !.layout = "ColorAttachmentOptimal",
              !.access = "COLOR_ATTACHMENT_WRITE",
              !.stage = "COLOR_ATTACHMENT_OUTPUT"]

DepthOutput(h) ==
    [h EXCEPT !.layout = "DepthStencilAttachmentOptimal",
              !.access = "DEPTH_STENCIL_ATTACHMENT_WRITE",
              !.stage = "LATE_FRAGMENT_TESTS"]

ShaderWrite(h) ==
    [h EXCEPT !.stage = SHADER_STAGES, !.access = "SHADER_READ|SHADER_WRITE"]

(***************************************************************************)
(* Construction.                                                           *)
(***************************************************************************)
EmptyHeap == [free_descriptors |-> [i \in 1..max_sets |-> i - 1], allocated_descriptors |-> <<>>]

EmptyCache ==
    [attachments |-> <<>>,
     attachment_cache |-> [k \in AttachmentKeys |-> <<>>],
     buffers |-> <<>>,
     buffer_cache |-> [k \in BufferKeys |-> <<>>],
     render_passes |-> <<>>,
     render_pass_cache |-> <<>>,
     framebuffers |-> <<>>,
     framebuffer_cache |-> <<>>,
     raster_pipelines |-> <<>>,
     raster_pipeline_cache |-> <<>>,
     descriptor_heap_caches |-> <<>>]

EmptyResourceMap ==
    [attachment_map |-> <<>>,
     buffer_map |-> <<>>,
     descriptor_map |-> <<>>,
     render_pass_map |-> <<>>,
     framebuffer_map |-> <<>>,
     raster_pipeline_map |-> <<>>]

NewGraph ==
    /\ passes = <<>>
    /\ recorded = <<>>
    /\ owned_resources = <<>>
    /\ resource_to_owning_pass = <<>>
    /\ imported_resources = <<>>
    /\ handles = <<>>
    /\ pc = "build"
    /\ pass_order = <<>>
    /\ resource_map = EmptyResourceMap
    /\ replayed = 0
    /\ ctx = <<>>
    /\ device = <<>>

\* VulkanDevice::new and VulkanSwapchain::new: frame 0, empty destructor queues,
\* fences created signaled, no image handed out yet
FrameSlots == 0..(MAX_FRAMES_IN_FLIGHT - 1)

NewImages == [i \in 1..MaxImages |-> [available_fence |-> <<>>]]

NewSwapchain ==
    /\ per_frame = [destructors |-> [s \in FrameSlots |-> <<>>], frame |-> 0]
    /\ fences = [s \in FrameSlots |-> TRUE]
    /\ command_pools = [s \in FrameSlots |-> "initial"]
    /\ images = NewImages
    /\ current_frame_info = <<>>
    /\ swap_pc = "idle"
    /\ image_index = 0
    /\ in_flight = <<>>
    /\ submitted = 0
    /\ update_pc = "returned"
    /\ awaited = <<>>
    /\ runs = <<>>

Init ==
    /\ NewGraph
    /\ cache = EmptyCache
    /\ frame = 1
    /\ demands = <<>>
    /\ previous = <<>>
    /\ descriptor_heap = EmptyHeap
    /\ heap_calls = <<>>
    /\ script = <<>>
    /\ NewSwapchain

(***************************************************************************)
(* RenderGraph: add_pass, import_resource, create_resource, record_pass.   *)
(***************************************************************************)
Building == pc = "build" /\ recorded # <<>>

NewRecordedPass(p) ==
    [pass |-> p,
     cmds |-> <<>>,
     read_attachments |-> {},
     write_attachments |-> {},
     read_buffers |-> {},
     write_buffers |-> {}]

AddPass ==
    /\ pc = "build"
    /\ recorded = <<>>
    /\ recorded' = <<NewRecordedPass(Len(passes) + 1)>>
    /\ UNCHANGED <<passes, owned_resources, resource_to_owning_pass, imported_resources,
                   handles, pc, frame, script, previous, heap_vars, pacer_vars>>
    /\ UNCHANGED exec_vars

\* A drop that records the pass twice
DropPassBuilderTwice ==
    /\ Building
    /\ passes' = passes \o <<recorded[1], recorded[1]>>
    /\ recorded' = <<>>
    /\ UNCHANGED <<owned_resources, resource_to_owning_pass, imported_resources,
                   handles, pc, frame, script, previous, heap_vars, pacer_vars>>
    /\ UNCHANGED exec_vars

\* Drop for PassBuilder: record_pass(self.recorded.take().unwrap())
DropPassBuilder ==
    /\ Building
    /\ passes' = Append(passes, recorded[1])
    /\ recorded' = <<>>
    /\ UNCHANGED <<owned_resources, resource_to_owning_pass, imported_resources,
                   handles, pc, frame, script, previous, heap_vars, pacer_vars>>
    /\ UNCHANGED exec_vars

Position(s, x) == CHOOSE i \in DOMAIN s : s[i] = x /\ \A j \in 1..(i - 1) : s[j] # x

\* An import that does not look for the resource first
import_resource_push(imported, resource) == Append(imported, resource)

\* import_resource: the list after the call; the id returned is the Position of
\* the resource in it
import_resource(imported, resource) ==
    IF resource \in Range(imported) THEN imported ELSE Append(imported, resource)

RECURSIVE ImportAll(_, _)
ImportAll(imported, resources) ==
    IF resources = <<>> THEN imported
    ELSE ImportAll(import_resource(imported, Head(resources)), Tail(resources))

\* create_resource: the new id is Len(owned_resources) + 1
create_resource(pass, resource, handle) ==
    /\ owned_resources' = Append(owned_resources, resource)
    /\ resource_to_owning_pass' = Append(resource_to_owning_pass, pass)
    /\ handles' = Append(handles, handle)

IdsOfKind(kind) == {i \in DOMAIN owned_resources : owned_resources[i].kind = kind}

AttachmentIds == IdsOfKind("Attachment")
BufferIds == IdsOfKind("Buffer")
DescriptorIds == IdsOfKind("DescriptorSet")
RenderPassIds == IdsOfKind("RenderPass") \cup IdsOfKind("OutputRenderPass")
RasterPipelineIds == IdsOfKind("RasterPipeline")

(***************************************************************************)
(* PassBuilder: resources.                                                 *)
(***************************************************************************)
AddAttachment(desc) ==
    /\ Building
    /\ create_resource(recorded[1].pass,
                       [kind |-> "Attachment", key |-> AttachmentCacheKey(desc),
                        load_op |-> desc.load_op, store_op |-> desc.store_op],
                       NewAttachmentHandle(Len(owned_resources) + 1))
    /\ UNCHANGED <<passes, recorded, imported_resources, pc, frame, script, previous, heap_vars, pacer_vars>>
    /\ UNCHANGED exec_vars

AddBuffer(desc) ==
    /\ Building
    /\ create_resource(recorded[1].pass,
                       [kind |-> "Buffer", key |-> BufferCacheKey(desc)],
                       NewBufferHandle(Len(owned_resources) + 1))
    /\ UNCHANGED <<passes, recorded, imported_resources, pc, frame, script, previous, heap_vars, pacer_vars>>
    /\ UNCHANGED exec_vars

\* The caller's handles after add_render_pass has set layout, access and stage
\* through the &mut references: colors first, then depth.
HandlesAfterRenderPass(color, depth) ==
    [i \in DOMAIN handles |->
        IF i \in Range(depth) THEN DepthOutput(handles[i])
        ELSE IF i \in Range(color) THEN ColorOutput(handles[i])
        ELSE handles[i]]

AddRenderPass(color, depth) ==
    /\ Building
    /\ Range(color) \cup Range(depth) \subseteq AttachmentIds
    /\ Len(depth) <= 1
    /\ LET color_attachments == [i \in DOMAIN color |-> ColorOutput(handles[color[i]])]
           depth_attachment == [i \in DOMAIN depth |-> DepthOutput(handles[depth[i]])]
       IN /\ recorded' = <<[recorded[1] EXCEPT !.write_attachments =
                               @ \cup Range(color_attachments) \cup Range(depth_attachment)]>>
          /\ owned_resources' = Append(owned_resources,
                                       [kind |-> "RenderPass",
                                        color_attachments |-> color_attachments,
                                        depth_attachment |-> depth_attachment])
          /\ resource_to_owning_pass' = Append(resource_to_owning_pass, recorded[1].pass)
          /\ handles' = Append(HandlesAfterRenderPass(color, depth), NoHandle)
    /\ UNCHANGED <<passes, imported_resources, pc, frame, script, previous, heap_vars, pacer_vars>>
    /\ UNCHANGED exec_vars

AddOutputRenderPass ==
    /\ Building
    /\ create_resource(recorded[1].pass, [kind |-> "OutputRenderPass"], NoHandle)
    /\ UNCHANGED <<passes, recorded, imported_resources, pc, frame, script, previous, heap_vars, pacer_vars>>
    /\ UNCHANGED exec_vars

\* A binding the caller passes to add_descriptor_set: ty names the variant of
\* DescriptorBindingDesc, obj the imported object, id the resource whose handle
\* (or whose handle's read()) is passed.
ImportedBufferBinding(obj) == [ty |-> "ImportedBuffer", obj |-> obj]
ImportedTextureBinding(obj) == [ty |-> "ImportedTexture", obj |-> obj]
AttachmentBinding(id) == [ty |-> "Attachment", id |-> id]
\* Attachment(h) for a read handle h the caller derived by read() earlier on
ReadHandleBinding(h) == [ty |-> "Attachment", id |-> h.id, handle |-> h]
BufferBinding(id) == [ty |-> "Buffer", id |-> id]
MutableBufferBinding(id) == [ty |-> "MutableBuffer", id |-> id]
MutableAttachmentBinding(id) == [ty |-> "MutableAttachment", id |-> id]

BindingIdsOk(b) ==
    CASE b.ty = "ImportedBuffer" -> b.obj \in ImportedBuffers
      [] b.ty = "ImportedTexture" -> b.obj \in Textures
      [] b.ty \in {"Attachment", "MutableAttachment"} -> b.id \in AttachmentIds
      [] b.ty \in {"Buffer", "MutableBuffer"} -> b.id \in BufferIds

\* The GraphImportedResource of an imported binding
ImportOf(b) ==
    [ty |-> IF b.ty = "ImportedBuffer" THEN "Buffer" ELSE "Texture", obj |-> b.obj]

ImportsOf(bindings) ==
    LET idx == SortedSeq({i \in DOMAIN bindings :
                             bindings[i].ty \in {"ImportedBuffer", "ImportedTexture"}})
    IN [j \in DOMAIN idx |-> ImportOf(bindings[idx[j]])]

\* The GraphOwnedResourceDescriptorBinding stored for binding b
OwnedBinding(b, imported) ==
    CASE b.ty \in {"ImportedBuffer", "ImportedTexture"} ->
            [ty |-> b.ty, id |-> Position(imported, ImportOf(b))]
      [] b.ty = "Attachment" ->
            [ty |-> "Attachment",
             handle |-> IF "handle" \in DOMAIN b THEN b.handle ELSE ReadAttachment(handles[b.id])]
      [] b.ty = "Buffer" -> [ty |-> "Buffer", handle |-> ReadBuffer(handles[b.id])]
      [] b.ty = "MutableBuffer" -> [ty |-> "MutableBuffer", handle |-> ShaderWrite(handles[b.id])]

AddDescriptorSet(layout, bindings) ==
    /\ Building
    /\ layout \in DescriptorLayouts
    /\ \A i \in DOMAIN bindings : BindingIdsOk(bindings[i])
    /\ IF \E i \in DOMAIN bindings : bindings[i].ty = "MutableAttachment"
       THEN \* unimplemented!()
            /\ pc' = "panic_unimplemented"
            /\ UNCHANGED <<passes, recorded, owned_resources, resource_to_owning_pass,
                           imported_resources, handles, frame, script, previous, heap_vars, pacer_vars>>
       ELSE LET imported == ImportAll(imported_resources, ImportsOf(bindings))
                owned == [i \in DOMAIN bindings |-> <<i - 1, OwnedBinding(bindings[i], imported)>>]
                of(ty) == {owned[i][2].handle : i \in {j \in DOMAIN owned : owned[j][2].ty = ty}}
                written == {bindings[i].id : i \in {j \in DOMAIN bindings : bindings[j].ty = "MutableBuffer"}}
            IN /\ imported_resources' = imported
               /\ recorded' = <<[recorded[1] EXCEPT
                                    !.read_attachments = @ \cup of("Attachment"),
                                    !.read_buffers = @ \cup of("Buffer"),
                                    !.write_buffers = @ \cup of("MutableBuffer")]>>
               /\ owned_resources' = Append(owned_resources,
                                            [kind |-> "DescriptorSet",
                                             descriptor_layout |-> layout,
                                             bindings |-> owned])
               /\ resource_to_owning_pass' = Append(resource_to_owning_pass, recorded[1].pass)
               /\ handles' = Append([i \in DOMAIN handles |->
                                        IF i \in written THEN ShaderWrite(handles[i])
                                        ELSE handles[i]], NoHandle)
               /\ UNCHANGED <<passes, pc, frame, script, previous, heap_vars, pacer_vars>>
    /\ UNCHANGED exec_vars

AddRasterPipeline(vs, layouts, render_pass) ==
    /\ Building
    /\ vs \in Shaders
    /\ render_pass \in RenderPassIds
    /\ LET imported == import_resource(imported_resources, [ty |-> "Shader", obj |-> vs])
       IN /\ imported_resources' = imported
          /\ create_resource(recorded[1].pass,
                             [kind |-> "RasterPipeline",
                              vs |-> Position(imported, [ty |-> "Shader", obj |-> vs]),
                              descriptor_layouts |-> layouts,
                              render_pass |-> render_pass],
                             NoHandle)
    /\ UNCHANGED <<passes, recorded, pc, frame, script, previous, heap_vars, pacer_vars>>
    /\ UNCHANGED exec_vars

(***************************************************************************)
(* PassBuilder: commands.                                                  *)
(***************************************************************************)
PushCmd(cmd) ==
    /\ Building
    /\ recorded' = <<[recorded[1] EXCEPT !.cmds = Append(@, cmd)]>>
    /\ UNCHANGED <<passes, owned_resources, resource_to_owning_pass, imported_resources,
                   handles, pc, frame, script, previous, heap_vars, pacer_vars>>
    /\ UNCHANGED exec_vars

CmdBeginRenderPass(render_pass) ==
    /\ render_pass \in RenderPassIds
    /\ PushCmd([op |-> "BeginRenderPass", render_pass |-> render_pass])

CmdEndRenderPass == PushCmd([op |-> "EndRenderPass"])

CmdBindRasterPipeline(pipeline) ==
    /\ pipeline \in RasterPipelineIds
    /\ PushCmd([op |-> "BindRasterPipeline", pipeline |-> pipeline])

CmdBindRasterDescriptor(descriptor, set, pipeline) ==
    /\ descriptor \in DescriptorIds
    /\ pipeline \in RasterPipelineIds
    /\ PushCmd([op |-> "BindDescriptor", set |-> set, descriptor |-> descriptor,
                pipeline |-> pipeline])

CmdDrawMesh(mesh) ==
    /\ Building
    /\ mesh \in Meshes
    /\ LET imported == import_resource(imported_resources, [ty |-> "Mesh", obj |-> mesh])
       IN /\ imported_resources' = imported
          /\ recorded' = <<[recorded[1] EXCEPT !.cmds =
                               Append(@, [op |-> "DrawMesh",
                                          mesh |-> Position(imported, [ty |-> "Mesh", obj |-> mesh])])]>>
    /\ UNCHANGED <<passes, owned_resources, resource_to_owning_pass, handles, pc, frame, script, previous, heap_vars, pacer_vars>>
    /\ UNCHANGED exec_vars

CmdDraw == PushCmd([op |-> "Draw"])

(***************************************************************************)
(* RenderGraph::execute: the output render pass and the pass order.        *)
(***************************************************************************)
Outputs == IdsOfKind("OutputRenderPass")

\* Dependencies that follow read attachments only
DependenciesOfAttachments(p) ==
    {resource_to_owning_pass[a.id] : a \in passes[p].read_attachments}

\* Dependencies that leave out the pass itself
DependenciesOfOthers(p) ==
    ({resource_to_owning_pass[a.id] : a \in passes[p].read_attachments}
        \cup {resource_to_owning_pass[b.id] : b \in passes[p].read_buffers}) \ {p}

\* The passes resolve_pass_dependencies recurses into from pass p (a HashSet)
Dependencies(p) ==
    {resource_to_owning_pass[a.id] : a \in passes[p].read_attachments}
        \cup {resource_to_owning_pass[b.id] : b \in passes[p].read_buffers}

\* The recursion from p never returns: some chain of dependencies is longer
\* than the number of passes (fuel starts at Len(passes)).
RECURSIVE Diverges(_, _)
Diverges(p, fuel) ==
    IF fuel = 0 THEN Dependencies(p) # {}
    ELSE \E d \in Dependencies(p) : Diverges(d, fuel - 1)

\* What resolve_pass_dependencies(p, pass_order) can push: p, then the pushes
\* of each dependency, the dependencies taken in any iteration order of the set.
RECURSIVE Pushes(_), PushesOfAll(_)
PushesOfAll(deps) ==
    IF deps = <<>> THEN {<<>>}
    ELSE {a \o b : a \in Pushes(Head(deps)), b \in PushesOfAll(Tail(deps))}

Pushes(p) ==
    UNION {{<<p>> \o t : t \in PushesOfAll(deps)} : deps \in Perms(Dependencies(p))}

resolve_pass_dependencies(p) == Pushes(p)

\* A retain that keeps every element, repeated ones included
RetainAll(s, found) == s

\* passes.retain(|p| found.insert(*p))
RECURSIVE Retain(_, _)
Retain(s, found) ==
    IF s = <<>> THEN <<>>
    ELSE IF Head(s) \in found THEN Retain(Tail(s), found)
    ELSE <<Head(s)>> \o Retain(Tail(s), found \cup {Head(s)})

\* A count check that rejects only the empty case
OutputCountAtLeastOne == Cardinality(Outputs) >= 1

OutputCountOk == Cardinality(Outputs) = 1

\* An order of allocation with the descriptor sets last
AllocationOrderDescriptorsLast ==
    <<"alloc_attachments", "alloc_buffers", "alloc_render_passes", "alloc_raster_pipelines",
      "alloc_descriptors", "replay">>

\* GraphPhysicalResourceMap::new: the order of the alloc_* calls, and the replay
\* that follows them in execute()
AllocationOrder ==
    <<"alloc_attachments", "alloc_buffers", "alloc_descriptors", "alloc_render_passes",
      "alloc_raster_pipelines", "replay">>

PhaseAfter(phase) == AllocationOrder[Position(AllocationOrder, phase) + 1]

Execute ==
    /\ pc = "build"
    /\ recorded = <<>>
    /\ IF ~OutputCountOk
       THEN /\ pc' = "panic_output"
            /\ UNCHANGED pass_order
       ELSE LET id == CHOOSE r \in Outputs : TRUE
                root_pass == resource_to_owning_pass[id]
            IN IF Diverges(root_pass, Len(passes))
               THEN /\ pc' = "stack_overflow"
                    /\ UNCHANGED pass_order
               ELSE /\ pc' = AllocationOrder[1]
                    /\ \E pushed \in resolve_pass_dependencies(root_pass) :
                          pass_order' = Retain(Reverse(<<root_pass>> \o pushed), {})
    /\ UNCHANGED graph_vars
    /\ UNCHANGED <<cache, resource_map, replayed, ctx, device, frame, demands, script, previous, heap_vars, pacer_vars>>

(***************************************************************************)
(* VirtualToPhysicalResourceMap.                                           *)
(***************************************************************************)
map_physical(map, handle, physical) ==
    IF handle \in DOMAIN map THEN map ELSE map @@ (handle :> physical)

\* map_physical over a sequence of <<virtual, physical>> pairs
RECURSIVE MapAll(_, _)
MapAll(map, pairs) ==
    IF pairs = <<>> THEN map
    ELSE MapAll(map_physical(map, Head(pairs)[1], Head(pairs)[2]), Tail(pairs))

RECURSIVE Flatten(_)
Flatten(ss) == IF ss = <<>> THEN <<>> ELSE Head(ss) \o Flatten(Tail(ss))

(***************************************************************************)
(* Attachments: RenderGraphCache::alloc_attachments and                    *)
(* GraphPhysicalResourceMap::alloc_attachments.                            *)
(***************************************************************************)
\* A pool growth that tests with <= and so creates one image more than asked for
RECURSIVE cache_alloc_attachments_le(_, _, _)
cache_alloc_attachments_le(c, key, count) ==
    IF Len(c.attachment_cache[key]) <= count
    THEN cache_alloc_attachments_le(
             [c EXCEPT !.attachment_cache[key] = Append(@, Len(c.attachments) + 1),
                       !.attachments = Append(@, key)],
             key, count)
    ELSE c

\* A pool growth that records the position in the list of the key, not in the pool
RECURSIVE cache_alloc_attachments_local(_, _, _)
cache_alloc_attachments_local(c, key, count) ==
    IF Len(c.attachment_cache[key]) < count
    THEN cache_alloc_attachments_local(
             [c EXCEPT !.attachment_cache[key] = Append(@, Len(@) + 1),
                       !.attachments = Append(@, key)],
             key, count)
    ELSE c

RECURSIVE cache_alloc_attachments(_, _, _)
cache_alloc_attachments(c, key, count) ==
    IF Len(c.attachment_cache[key]) < count
    THEN cache_alloc_attachments(
             [c EXCEPT !.attachment_cache[key] = Append(@, Len(c.attachments) + 1),
                       !.attachments = Append(@, key)],
             key, count)
    ELSE c

\* The attachments of a key that the passes of the resolved order own
AttachmentsOfKeySelected(key) ==
    SortedSeq({i \in AttachmentIds : /\ owned_resources[i].key = key
                                      /\ resource_to_owning_pass[i] \in Range(pass_order)})

\* attachment_type_to_virtual[key]
AttachmentsOfKey(key) == SortedSeq({i \in AttachmentIds : owned_resources[i].key = key})

AttachmentKeysUsed == {owned_resources[i].key : i \in AttachmentIds}

RECURSIVE AllocAttachmentKeys(_, _)
AllocAttachmentKeys(c, keys) ==
    IF keys = <<>> THEN c
    ELSE AllocAttachmentKeys(
             cache_alloc_attachments(c, Head(keys), Len(AttachmentsOfKey(Head(keys)))),
             Tail(keys))

\* A slot choice that hands every virtual attachment the first slot of its pool
AttachmentSlotFirst(c, key, i) == c.attachment_cache[key][1]

AttachmentSlot(c, key, i) == c.attachment_cache[key][i]

AttachmentPairs(c, keys) ==
    Flatten([k \in DOMAIN keys |->
                [i \in DOMAIN AttachmentsOfKey(keys[k]) |->
                    <<AttachmentsOfKey(keys[k])[i], AttachmentSlot(c, keys[k], i)>>]])

Created(call, before, after) ==
    [i \in 1..(Len(after) - Len(before)) |-> [call |-> call, key |-> after[Len(before) + i]]]

AllocAttachments ==
    /\ pc = "alloc_attachments"
    /\ \E keys \in Perms(AttachmentKeysUsed) :
          LET c == AllocAttachmentKeys(cache, keys)
          IN /\ cache' = c
             /\ resource_map' = [resource_map EXCEPT
                                    !.attachment_map = MapAll(<<>>, AttachmentPairs(c, keys))]
             /\ device' = device \o Created("create_texture", cache.attachments, c.attachments)
    /\ demands' = Append(demands, [k \in AttachmentKeys \cup BufferKeys |->
                                      IF k \in AttachmentKeys THEN Len(AttachmentsOfKey(k))
                                      ELSE 0])
    /\ pc' = PhaseAfter(pc)
    /\ UNCHANGED graph_vars
    /\ UNCHANGED <<pass_order, replayed, ctx, frame, script, previous, heap_vars, pacer_vars>>

(***************************************************************************)
(* Buffers: RenderGraphCache::alloc_buffers and                            *)
(* GraphPhysicalResourceMap::alloc_buffers.                                *)
(***************************************************************************)
\* A pool growth that tests with <= and so creates one buffer more than asked for
RECURSIVE cache_alloc_buffers_le(_, _, _)
cache_alloc_buffers_le(c, key, count) ==
    IF Len(c.buffer_cache[key]) <= count
    THEN cache_alloc_buffers_le(
             [c EXCEPT !.buffer_cache[key] = Append(@, Len(c.buffers) + 1),
                       !.buffers = Append(@, key)],
             key, count)
    ELSE c

RECURSIVE cache_alloc_buffers(_, _, _)
cache_alloc_buffers(c, key, count) ==
    IF Len(c.buffer_cache[key]) < count
    THEN cache_alloc_buffers(
             [c EXCEPT !.buffer_cache[key] = Append(@, Len(c.buffers) + 1),
                       !.buffers = Append(@, key)],
             key, count)
    ELSE c

BuffersOfKey(key) == SortedSeq({i \in BufferIds : owned_resources[i].key = key})

BufferKeysUsed == {owned_resources[i].key : i \in BufferIds}

RECURSIVE AllocBufferKeys(_, _)
AllocBufferKeys(c, keys) ==
    IF keys = <<>> THEN c
    ELSE AllocBufferKeys(
             cache_alloc_buffers(c, Head(keys), Len(BuffersOfKey(Head(keys)))),
             Tail(keys))

BufferSlot(c, key, i) == c.buffer_cache[key][i]

BufferPairs(c, keys) ==
    Flatten([k \in DOMAIN keys |->
                [i \in DOMAIN BuffersOfKey(keys[k]) |->
                    <<BuffersOfKey(keys[k])[i], BufferSlot(c, keys[k], i)>>]])

AllocBuffers ==
    /\ pc = "alloc_buffers"
    /\ \E keys \in Perms(BufferKeysUsed) :
          LET c == AllocBufferKeys(cache, keys)
          IN /\ cache' = c
             /\ resource_map' = [resource_map EXCEPT
                                    !.buffer_map = MapAll(<<>>, BufferPairs(c, keys))]
             /\ device' = device \o Created("create_empty_buffer", cache.buffers, c.buffers)
    /\ demands' = [demands EXCEPT ![Len(demands)] =
                       [k \in DOMAIN @ |-> IF k \in BufferKeys THEN Len(BuffersOfKey(k)) ELSE @[k]]]
    /\ pc' = PhaseAfter(pc)
    /\ UNCHANGED graph_vars
    /\ UNCHANGED <<pass_order, replayed, ctx, frame, script, previous, heap_vars, pacer_vars>>

(***************************************************************************)
(* Descriptor sets: VulkanDescriptorHeap::alloc,                           *)
(* RenderGraphCache::alloc_descriptor and                                  *)
(* GraphPhysicalResourceMap::alloc_descriptors.                            *)
(***************************************************************************)
\* VulkanDescriptorHeap::alloc: free_descriptors.pop(), None when it is empty
\* An alloc that hands out the last free descriptor and leaves it in the free list
heap_alloc_peek(heap) ==
    IF heap.free_descriptors = <<>>
    THEN [some |-> FALSE, heap |-> heap, id |-> 0]
    ELSE [some |-> TRUE, heap |-> heap, id |-> heap.free_descriptors[Len(heap.free_descriptors)]]

heap_alloc(heap) ==
    IF heap.free_descriptors = <<>>
    THEN [some |-> FALSE, heap |-> heap, id |-> 0]
    ELSE LET descriptor == heap.free_descriptors[Len(heap.free_descriptors)]
         IN [some |-> TRUE,
             heap |-> [free_descriptors |->
                           SubSeq(heap.free_descriptors, 1, Len(heap.free_descriptors) - 1),
                       allocated_descriptors |-> Append(heap.allocated_descriptors, descriptor)],
             id |-> descriptor]

\* Vec::swap_remove(i): the last element takes the place of element i
swap_remove(s, i) ==
    [j \in 1..(Len(s) - 1) |-> IF j = i THEN s[Len(s)] ELSE s[j]]

\* A free that puts the id back on the free list and leaves it allocated too
heap_free_kept(heap, id) ==
    [panic |-> id \notin Range(heap.allocated_descriptors),
     heap |-> IF id \in Range(heap.allocated_descriptors)
              THEN [heap EXCEPT !.free_descriptors = Append(@, id)]
              ELSE heap]

\* VulkanDescriptorHeap::free: position(..).expect("Double vulkan descriptor free
\* detected!"), swap_remove(i), free_descriptors.push(handle.id)
heap_free(heap, id) ==
    LET found == {j \in DOMAIN heap.allocated_descriptors : heap.allocated_descriptors[j] = id}
    IN IF found = {}
       THEN [panic |-> TRUE, heap |-> heap]
       ELSE LET i == CHOOSE j \in found : \A k \in found : j <= k
            IN [panic |-> FALSE,
                heap |-> [free_descriptors |-> Append(heap.free_descriptors, id),
                          allocated_descriptors |-> swap_remove(heap.allocated_descriptors, i)]]

register_graphics_descriptor_layout(c, descriptor_info) ==
    IF descriptor_info \in DOMAIN c.descriptor_heap_caches THEN c
    ELSE [c EXCEPT !.descriptor_heap_caches =
                       @ @@ (descriptor_info :> [heap |-> EmptyHeap, cache |-> <<>>])]

\* [ok, cache, handle]: ok is FALSE when heap.alloc().unwrap() panics
alloc_descriptor(c, descriptor_info, key) ==
    LET c1 == register_graphics_descriptor_layout(c, descriptor_info)
        descriptor_cache == c1.descriptor_heap_caches[descriptor_info]
    IN IF key \in DOMAIN descriptor_cache.cache
       THEN [ok |-> TRUE, cache |-> c1, handle |-> descriptor_cache.cache[key]]
       ELSE LET a == heap_alloc(descriptor_cache.heap)
            IN [ok |-> a.some,
                cache |-> [c1 EXCEPT !.descriptor_heap_caches[descriptor_info] =
                                         [heap |-> a.heap,
                                          cache |-> descriptor_cache.cache @@ (key :> a.id)]],
                handle |-> a.id]

\* A key binding that keeps the variant only
KeyBindingByVariant(b, rm) == [ty |-> b.ty]

\* The DescriptorHeapCacheKeyBinding of a binding of a descriptor set
KeyBinding(b, rm) ==
    CASE b.ty = "ImportedBuffer" ->
            [ty |-> "ImportedBuffer", buffer |-> imported_resources[b.id].obj]
      [] b.ty = "ImportedTexture" ->
            [ty |-> "ImportedTexture", image |-> imported_resources[b.id].obj]
      [] b.ty \in {"Buffer", "MutableBuffer"} ->
            [ty |-> "Buffer", buffer |-> rm.buffer_map[b.handle.id]]
      [] b.ty = "Attachment" ->
            [ty |-> "Attachment", attachment |-> rm.attachment_map[b.handle.id]]

DescriptorKey(id, rm) ==
    LET bindings == owned_resources[id].bindings
    IN [bindings |-> [i \in DOMAIN bindings |-> <<bindings[i][1], KeyBinding(bindings[i][2], rm)>>]]

IsImportedBufferBinding(x) == x[2].ty = "ImportedBuffer"
IsAttachmentBinding(x) == x[2].ty = "Attachment"

\* FrameInfo.frame_index of the frame that is open while the graph executes:
\* acquire() returns guard.frame, which submit() moves on by one, modulo
\* MAX_FRAMES_IN_FLIGHT, at the end of every frame
FrameIndex == (frame - 1) % MAX_FRAMES_IN_FLIGHT

\* The arguments alloc_descriptors passes to update_descriptor for set id;
\* `frame` is the copy descriptors[handle][frame] that the call writes
UpdateDescriptorCall(id, rm, handle) ==
    LET bindings == owned_resources[id].bindings
        bs == SelectSeq(bindings, IsImportedBufferBinding)
        is == SelectSeq(bindings, IsAttachmentBinding)
    IN [call |-> "update_descriptor",
        pass |-> 0,
        cmd |-> 0,
        virtual |-> id,
        descriptor_layout |-> owned_resources[id].descriptor_layout,
        descriptor |-> handle,
        frame |-> FrameIndex,
        buffers |-> [i \in DOMAIN bs |-> <<bs[i][1], imported_resources[bs[i][2].id].obj>>],
        images |-> [i \in DOMAIN is |->
                       <<is[i][1], rm.attachment_map[is[i][2].handle.id],
                         is[i][2].handle.final_layout>>]]

\* An update that is left out when the key already had a physical descriptor
DescriptorUpdatesIfNew(id, rm, handle, known) ==
    IF known THEN <<>> ELSE <<UpdateDescriptorCall(id, rm, handle)>>

\* The update_descriptor calls made for set id, whose key had (known) or had
\* not a physical descriptor before this set was allocated: always one.
DescriptorUpdates(id, rm, handle, known) == <<UpdateDescriptorCall(id, rm, handle)>>

RECURSIVE AllocDescriptorsFrom(_, _, _)
AllocDescriptorsFrom(acc, ids, rm) ==
    IF ids = <<>> \/ ~acc.ok THEN acc
    ELSE LET id == Head(ids)
             layout == owned_resources[id].descriptor_layout
             key == DescriptorKey(id, rm)
             known == /\ layout \in DOMAIN acc.cache.descriptor_heap_caches
                      /\ key \in DOMAIN acc.cache.descriptor_heap_caches[layout].cache
             r == alloc_descriptor(acc.cache, layout, key)
         IN IF ~r.ok THEN [acc EXCEPT !.ok = FALSE]
            ELSE AllocDescriptorsFrom(
                     [ok |-> TRUE,
                      cache |-> r.cache,
                      map |-> map_physical(acc.map, id, <<r.handle, layout>>),
                      calls |-> acc.calls \o DescriptorUpdates(id, rm, r.handle, known)],
                     Tail(ids), rm)

CreatedHeaps(before, after) ==
    LET layouts == DOMAIN after.descriptor_heap_caches \ DOMAIN before.descriptor_heap_caches
    IN IF layouts = {} THEN <<>>
       ELSE LET l == CHOOSE s \in Perms(layouts) : TRUE
            IN [i \in DOMAIN l |-> [call |-> "create_descriptor_heap", key |-> l[i]]]

AllocDescriptors ==
    /\ pc = "alloc_descriptors"
    /\ LET acc == AllocDescriptorsFrom(
                      [ok |-> TRUE, cache |-> cache, map |-> <<>>, calls |-> <<>>],
                      SortedSeq(DescriptorIds), resource_map)
       IN /\ cache' = acc.cache
          /\ ctx' = ctx \o acc.calls
          /\ device' = device \o CreatedHeaps(cache, acc.cache)
          /\ IF acc.ok
             THEN /\ resource_map' = [resource_map EXCEPT !.descriptor_map = acc.map]
                  /\ pc' = PhaseAfter(pc)
             ELSE /\ pc' = "panic_descriptor_heap"
                  /\ UNCHANGED resource_map
    /\ UNCHANGED graph_vars
    /\ UNCHANGED <<pass_order, replayed, frame, demands, script, previous, heap_vars, pacer_vars>>

(***************************************************************************)
(* Render passes and framebuffers: alloc_render_pass, alloc_framebuffer    *)
(* and GraphPhysicalResourceMap::alloc_render_passes.                      *)
(***************************************************************************)
alloc_render_pass(c, key) ==
    IF key \in DOMAIN c.render_pass_cache THEN c
    ELSE [c EXCEPT !.render_passes = Append(@, key),
                   !.render_pass_cache = @ @@ (key :> (Len(c.render_passes) + 1))]

\* A framebuffer allocation that does not look the key up and always creates
alloc_framebuffer_uncached(c, key) ==
    [c EXCEPT !.framebuffers = Append(@, key),
              !.framebuffer_cache = (key :> (Len(c.framebuffers) + 1)) @@ @]

alloc_framebuffer(c, key) ==
    IF key \in DOMAIN c.framebuffer_cache THEN c
    ELSE [c EXCEPT !.framebuffers = Append(@, key),
                   !.framebuffer_cache = @ @@ (key :> (Len(c.framebuffers) + 1))]

\* The AttachmentDescription built for the attachment a render pass holds by `handle`
AttachmentDescriptionOf(handle) ==
    [format |-> owned_resources[handle.id].key.format,
     usage |-> owned_resources[handle.id].key.usage,
     load_op |-> owned_resources[handle.id].load_op,
     store_op |-> owned_resources[handle.id].store_op,
     initial_layout |-> "Undefined",
     final_layout |-> handle.layout]

RenderPassKey(id) ==
    LET r == owned_resources[id]
    IN [color_attachment_descs |->
            [i \in DOMAIN r.color_attachments |-> AttachmentDescriptionOf(r.color_attachments[i])],
        depth_attachment_desc |->
            [i \in DOMAIN r.depth_attachment |-> AttachmentDescriptionOf(r.depth_attachment[i])]]

MinOr0(S) == IF S = {} THEN 0 ELSE CHOOSE x \in S : \A y \in S : x <= y

FramebufferKey(id, rm, render_pass) ==
    LET r == owned_resources[id]
        all == r.color_attachments \o r.depth_attachment
    IN [width |-> MinOr0({owned_resources[all[i].id].key.width : i \in DOMAIN all}),
        height |-> MinOr0({owned_resources[all[i].id].key.height : i \in DOMAIN all}),
        attachments |-> [i \in DOMAIN all |-> rm.attachment_map[all[i].id]],
        render_pass |-> render_pass]

RECURSIVE AllocRenderPassesFrom(_, _, _)
AllocRenderPassesFrom(acc, ids, rm) ==
    IF ids = <<>> THEN acc
    ELSE LET id == Head(ids)
         IN IF owned_resources[id].kind = "OutputRenderPass"
            THEN AllocRenderPassesFrom(
                     [acc EXCEPT !.render_pass_map = map_physical(@, id, OUTPUT_SENTINEL)],
                     Tail(ids), rm)
            ELSE LET render_pass_key == RenderPassKey(id)
                     c1 == alloc_render_pass(acc.cache, render_pass_key)
                     render_pass == c1.render_pass_cache[render_pass_key]
                     framebuffer_key == FramebufferKey(id, rm, render_pass)
                     c2 == alloc_framebuffer(c1, framebuffer_key)
                     framebuffer == c2.framebuffer_cache[framebuffer_key]
                 IN AllocRenderPassesFrom(
                        [cache |-> c2,
                         render_pass_map |-> map_physical(acc.render_pass_map, id, render_pass),
                         framebuffer_map |-> map_physical(acc.framebuffer_map, id, framebuffer)],
                        Tail(ids), rm)

AllocRenderPasses ==
    /\ pc = "alloc_render_passes"
    /\ LET acc == AllocRenderPassesFrom(
                      [cache |-> cache, render_pass_map |-> <<>>, framebuffer_map |-> <<>>],
                      SortedSeq(RenderPassIds), resource_map)
       IN /\ cache' = acc.cache
          /\ resource_map' = [resource_map EXCEPT !.render_pass_map = acc.render_pass_map,
                                                  !.framebuffer_map = acc.framebuffer_map]
          /\ device' = device
                         \o Created("create_render_pass", cache.render_passes, acc.cache.render_passes)
                         \o Created("create_framebuffer", cache.framebuffers, acc.cache.framebuffers)
    /\ pc' = PhaseAfter(pc)
    /\ UNCHANGED graph_vars
    /\ UNCHANGED <<pass_order, replayed, ctx, frame, demands, script, previous, heap_vars, pacer_vars>>

(***************************************************************************)
(* Raster pipelines: alloc_raster_pipeline and                             *)
(* GraphPhysicalResourceMap::alloc_raster_pipelines.                       *)
(***************************************************************************)
alloc_raster_pipeline(c, key) ==
    IF key \in DOMAIN c.raster_pipeline_cache THEN c
    ELSE [c EXCEPT !.raster_pipelines = Append(@, key),
                   !.raster_pipeline_cache = @ @@ (key :> (Len(c.raster_pipelines) + 1))]

RECURSIVE RegisterLayouts(_, _)
RegisterLayouts(c, layouts) ==
    IF layouts = <<>> THEN c
    ELSE RegisterLayouts(register_graphics_descriptor_layout(c, Head(layouts)), Tail(layouts))

RasterPipelineKey(id, rm) ==
    LET r == owned_resources[id]
    IN [vs |-> imported_resources[r.vs].obj,
        ps |-> "None",
        descriptor_layouts |-> r.descriptor_layouts,
        render_pass |-> rm.render_pass_map[r.render_pass]]

RECURSIVE AllocRasterPipelinesFrom(_, _, _)
AllocRasterPipelinesFrom(acc, ids, rm) ==
    IF ids = <<>> THEN acc
    ELSE LET id == Head(ids)
             c1 == RegisterLayouts(acc.cache, owned_resources[id].descriptor_layouts)
             key == RasterPipelineKey(id, rm)
             c2 == alloc_raster_pipeline(c1, key)
         IN AllocRasterPipelinesFrom(
                [cache |-> c2,
                 map |-> map_physical(acc.map, id, c2.raster_pipeline_cache[key])],
                Tail(ids), rm)

AllocRasterPipelines ==
    /\ pc = "alloc_raster_pipelines"
    /\ LET acc == AllocRasterPipelinesFrom([cache |-> cache, map |-> <<>>],
                                           SortedSeq(RasterPipelineIds), resource_map)
       IN /\ cache' = acc.cache
          /\ resource_map' = [resource_map EXCEPT !.raster_pipeline_map = acc.map]
          /\ device' = device
                         \o CreatedHeaps(cache, acc.cache)
                         \o Created("create_raster_pipeline",
                                    cache.raster_pipelines, acc.cache.raster_pipelines)
    /\ pc' = PhaseAfter(pc)
    /\ UNCHANGED graph_vars
    /\ UNCHANGED <<pass_order, replayed, ctx, frame, demands, script, previous, heap_vars, pacer_vars>>

(***************************************************************************)
(* RenderGraph::execute: barriers and replay of the selected passes.       *)
(***************************************************************************)
ImageBarrier(p, i, attachment, rm) ==
    [call |-> "pipeline_barrier",
     pass |-> p,
     cmd |-> i,
     kind |-> "image",
     virtual |-> attachment.id,
     physical |-> rm.attachment_map[attachment.id],
     src_stage |-> attachment.src_stage,
     dst_stage |-> attachment.dst_stage,
     old_layout |-> attachment.initial_layout,
     new_layout |-> attachment.final_layout,
     src_access |-> attachment.src_access,
     dst_access |-> attachment.dst_access]

BufferBarrier(p, i, buffer, rm) ==
    [call |-> "pipeline_barrier",
     pass |-> p,
     cmd |-> i,
     kind |-> "buffer",
     virtual |-> buffer.id,
     physical |-> rm.buffer_map[buffer.id],
     src_stage |-> buffer.src_stage,
     dst_stage |-> buffer.dst_stage,
     src_access |-> buffer.src_access,
     dst_access |-> buffer.dst_access]

\* The barriers a BeginRenderPass command of pass p issues: read_attachments
\* and read_buffers are HashSets, iterated here in the orders ra and rb.
Barriers(p, i, ra, rb, rm) ==
    [k \in DOMAIN ra |-> ImageBarrier(p, i, ra[k], rm)]
        \o [k \in DOMAIN rb |-> BufferBarrier(p, i, rb[k], rm)]

\* A begin that does not look for the sentinel
BeginCallNoSentinel(p, i, render_pass, rm) ==
    [call |-> "begin_render_pass", pass |-> p, cmd |-> i,
     render_pass |-> rm.render_pass_map[render_pass],
     framebuffer |-> IF render_pass \in DOMAIN rm.framebuffer_map
                     THEN rm.framebuffer_map[render_pass] ELSE 0]

BeginCall(p, i, render_pass, rm) ==
    IF rm.render_pass_map[render_pass] = OUTPUT_SENTINEL
    THEN [call |-> "begin_output_render_pass", pass |-> p, cmd |-> i]
    ELSE [call |-> "begin_render_pass", pass |-> p, cmd |-> i,
          render_pass |-> rm.render_pass_map[render_pass],
          framebuffer |-> rm.framebuffer_map[render_pass]]

\* A BindDescriptor arm that writes the descriptor again before binding it
BindCallsWithUpdate(p, i, cmd, rm) ==
    <<[UpdateDescriptorCall(cmd.descriptor, rm, rm.descriptor_map[cmd.descriptor][1])
          EXCEPT !.pass = p, !.cmd = i],
      [call |-> "bind_descriptor", pass |-> p, cmd |-> i,
       virtual |-> cmd.descriptor,
       descriptor |-> rm.descriptor_map[cmd.descriptor][1],
       descriptor_layout |-> rm.descriptor_map[cmd.descriptor][2],
       frame |-> FrameIndex,
       set |-> cmd.set,
       pipeline |-> rm.raster_pipeline_map[cmd.pipeline]]>>

\* The BindDescriptor arm of the replay
BindCalls(p, i, cmd, rm) ==
    <<[call |-> "bind_descriptor", pass |-> p, cmd |-> i,
       virtual |-> cmd.descriptor,
       descriptor |-> rm.descriptor_map[cmd.descriptor][1],
       descriptor_layout |-> rm.descriptor_map[cmd.descriptor][2],
       frame |-> FrameIndex,
       set |-> cmd.set,
       pipeline |-> rm.raster_pipeline_map[cmd.pipeline]]>>

\* The calls the i-th command of pass p makes on the GraphicsContext
ReplayCmd(p, i, ra, rb, rm) ==
    LET cmd == passes[p].cmds[i]
    IN CASE cmd.op = "BeginRenderPass" ->
                Barriers(p, i, ra, rb, rm) \o <<BeginCall(p, i, cmd.render_pass, rm)>>
         [] cmd.op = "EndRenderPass" ->
                <<[call |-> "end_render_pass", pass |-> p, cmd |-> i]>>
         [] cmd.op = "BindRasterPipeline" ->
                <<[call |-> "bind_raster_pipeline", pass |-> p, cmd |-> i,
                   pipeline |-> rm.raster_pipeline_map[cmd.pipeline]]>>
         [] cmd.op = "BindDescriptor" -> BindCalls(p, i, cmd, rm)
         [] cmd.op = "DrawMesh" ->
                <<[call |-> "draw_mesh", pass |-> p, cmd |-> i,
                   mesh |-> imported_resources[cmd.mesh].obj]>>
         [] cmd.op = "Draw" ->
                <<[call |-> "draw", pass |-> p, cmd |-> i]>>

\* A replay that walks the command list from its end
ReplayCmdsBackwards(p, ra, rb, rm) ==
    Flatten(Reverse([i \in DOMAIN passes[p].cmds |-> ReplayCmd(p, i, ra, rb, rm)]))

ReplayCmds(p, ra, rb, rm) ==
    Flatten([i \in DOMAIN passes[p].cmds |-> ReplayCmd(p, i, ra, rb, rm)])

ReplayPass ==
    /\ pc = "replay"
    /\ replayed < Len(pass_order)
    /\ LET p == pass_order[replayed + 1]
       IN \E ra \in Perms(passes[p].read_attachments), rb \in Perms(passes[p].read_buffers) :
             ctx' = ctx \o ReplayCmds(p, ra, rb, resource_map)
    /\ replayed' = replayed + 1
    /\ pc' = IF replayed + 1 = Len(pass_order) THEN "done" ELSE "replay"
    /\ UNCHANGED graph_vars
    /\ UNCHANGED <<cache, pass_order, resource_map, device, frame, demands, script, previous, heap_vars, pacer_vars>>

(***************************************************************************)
(* The next frame: RenderGraph::new(&mut cache) after execute() returned.  *)
(***************************************************************************)
NewFrame ==
    /\ pc = "done"
    /\ frame' = frame + 1
    /\ passes' = <<>>
    /\ recorded' = <<>>
    /\ owned_resources' = <<>>
    /\ resource_to_owning_pass' = <<>>
    /\ imported_resources' = <<>>
    /\ handles' = <<>>
    /\ pc' = "build"
    /\ pass_order' = <<>>
    /\ resource_map' = EmptyResourceMap
    /\ replayed' = 0
    /\ ctx' = <<>>
    /\ device' = <<>>
    /\ UNCHANGED <<cache, demands, script, heap_vars, pacer_vars>>

(***************************************************************************)
(* RenderGraphCache::destroy(self, graphics_device), called once the last  *)
(* graph has been executed.  The cache is moved into the call; `cache`     *)
(* keeps the pools it held, `device` receives the destroy calls.           *)
(***************************************************************************)
DestroyCallsOf(call, pool) == [i \in DOMAIN pool |-> [call |-> call, key |-> pool[i], index |-> i]]

DestroyCalls(c, layouts) ==
    DestroyCallsOf("destroy_texture", c.attachments)
        \o DestroyCallsOf("destroy_pipeline", c.raster_pipelines)
        \o DestroyCallsOf("destroy_render_pass", c.render_passes)
        \o DestroyCallsOf("destroy_framebuffer", c.framebuffers)
        \o DestroyCallsOf("destroy_descriptor_heap", layouts)
        \o <<[call |-> "destroy_descriptor_layout_cache", key |-> "all", index |-> 1]>>

DestroyCache ==
    /\ pc = "done"
    /\ \E layouts \in Perms(DOMAIN cache.descriptor_heap_caches) :
          device' = device \o DestroyCalls(cache, layouts)
    /\ pc' = "cache_destroyed"
    /\ UNCHANGED graph_vars
    /\ UNCHANGED <<cache, pass_order, resource_map, replayed, ctx, frame, demands, script,
                   previous, heap_vars, pacer_vars>>

ExecuteSteps ==
    \/ Execute
    \/ AllocAttachments
    \/ AllocBuffers
    \/ AllocDescriptors
    \/ AllocRenderPasses
    \/ AllocRasterPipelines
    \/ ReplayPass

(***************************************************************************)
(* Spec: one graph, built by any sequence of builder calls within the      *)
(* bounds, then executed against an empty cache.  Each pass creates its    *)
(* resources, records one draw and is dropped.                             *)
(***************************************************************************)
MayAddPass == Len(passes) < MaxPasses
MayAddResource == Len(owned_resources) < MaxResources
NoCmdYet == recorded # <<>> /\ recorded[1].cmds = <<>>

BindingLists ==
    {<<>>}
      \cup {<<AttachmentBinding(a)>> : a \in AttachmentIds}
      \cup {<<BufferBinding(b)>> : b \in BufferIds}
      \cup {<<MutableBufferBinding(b)>> : b \in BufferIds}
      \cup {<<AttachmentBinding(a), BufferBinding(b)>> : a \in AttachmentIds, b \in BufferIds}

BuildStep ==
    \/ MayAddPass /\ AddPass
    \/ ~NoCmdYet /\ DropPassBuilder
    \/ MayAddResource /\ NoCmdYet /\ AddAttachment(ColorDesc)
    \/ MayAddResource /\ NoCmdYet /\ \E d \in BufferDescs : AddBuffer(d)
    \/ MayAddResource /\ NoCmdYet /\ \E a \in AttachmentIds : AddRenderPass(<<a>>, <<>>)
    \/ MayAddResource /\ NoCmdYet /\ AddOutputRenderPass
    \/ MayAddResource /\ NoCmdYet /\ \E bs \in BindingLists : AddDescriptorSet("COMMON_DESC_INFO", bs)
    \/ NoCmdYet /\ CmdDraw

Next ==
    \/ BuildStep
    \/ ExecuteSteps

Spec == Init /\ [][Next]_vars

(***************************************************************************)
(* SpecWorn: the graphs of Spec, executed against a cache that earlier     *)
(* frames have used: their descriptor sets, each binding another imported  *)
(* buffer, took all but one of the max_sets descriptors of the             *)
(* COMMON_DESC_INFO heap (descriptors are never handed back to the heap).  *)
(***************************************************************************)
\* The DescriptorHeapCacheKey of the set the i-th earlier frame declared
EarlierKey(i) ==
    [bindings |-> <<<<0, [ty |-> "ImportedBuffer", buffer |-> <<"uniform", i>>]>>>>]

\* The heap after n calls of VulkanDescriptorHeap::alloc: the descriptors
\* max_sets - 1 down to max_sets - n are popped from the end of the free list
HeapAfter(n) ==
    [free_descriptors |-> [i \in 1..(max_sets - n) |-> i - 1],
     allocated_descriptors |-> [i \in 1..n |-> max_sets - i]]

\* The cache after alloc_descriptor has served the keys of n earlier frames,
\* the i-th of them getting the i-th descriptor popped
CacheAfter(n) ==
    [EmptyCache EXCEPT !.descriptor_heap_caches =
        [l \in {"COMMON_DESC_INFO"} |->
            [heap |-> HeapAfter(n),
             cache |-> [k \in {EarlierKey(i) : i \in 1..n} |->
                           max_sets - k.bindings[1][2].buffer[2]]]]]

WornCache == CacheAfter(max_sets - 1)

InitWorn ==
    /\ NewGraph
    /\ cache = WornCache
    /\ frame = 1
    /\ demands = <<>>
    /\ previous = <<>>
    /\ descriptor_heap = EmptyHeap
    /\ heap_calls = <<>>
    /\ script = <<>>
    /\ NewSwapchain

SpecWorn == InitWorn /\ [][Next]_vars

(***************************************************************************)
(* SpecCache: one cache, a new graph every frame.  Each graph is one pass  *)
(* that creates its output render pass and then attachments of one        *)
(* descriptor and buffers of one descriptor.                               *)
(***************************************************************************)
MayStartFrame == frame < MaxFrames
FirstPass == passes = <<>>
NoResourceYet == owned_resources = <<>>

NextCache ==
    \/ FirstPass /\ AddPass
    \/ DropPassBuilder
    \/ NoResourceYet /\ AddOutputRenderPass
    \/ MayAddResource /\ ~NoResourceYet /\ AddAttachment(ColorDesc)
    \/ MayAddResource /\ ~NoResourceYet /\ \E d \in BufferDescs : AddBuffer(d)
    \/ ExecuteSteps
    \/ MayStartFrame /\ NewFrame /\ UNCHANGED previous

SpecCache == Init /\ [][NextCache]_vars

(***************************************************************************)
(* SpecScenario: the frame code of Game::update (crates/game/src/lib.rs),  *)
(* three passes geometry, cull and fullscreen, written against the builder *)
(* of render_graph.rs, and variations of it.  The caller makes the calls   *)
(* of its script in order and ends with execute().                         *)
(*   storage     how cull writes its image: through the MutableAttachment  *)
(*               binding of Game::update, or as the color attachment of a  *)
(*               render pass of its own                                    *)
(*   cull_begin  cull records cmd_begin_render_pass / cmd_end_render_pass  *)
(*   share       cull and fullscreen also bind the descriptor set geometry *)
(*               created                                                   *)
(*   redeclare   fullscreen declares the geometry descriptor set again     *)
(*   early_draw  fullscreen draws once before it begins its render pass    *)
(*   early_read  the caller derives the read handle of the geometry depth  *)
(*               right after add_attachment, before add_render_pass, and   *)
(*               hands that one to cull                                    *)
(*   twin        fullscreen declares one more descriptor set of its own    *)
(*               layout, whose second binding is the geometry depth        *)
(*   textured    the descriptor sets of fullscreen's own layout also bind  *)
(*               an imported texture, cull creates a storage buffer and    *)
(*               fullscreen declares a descriptor set that reads it        *)
(***************************************************************************)
Options ==
    [storage : {"MutableAttachment", "ColorAttachment"},
     cull_begin : BOOLEAN, share : BOOLEAN, redeclare : BOOLEAN, early_draw : BOOLEAN,
     early_read : BOOLEAN, twin : BOOLEAN, textured : BOOLEAN]

When(b, calls) == IF b THEN calls ELSE <<>>

GeometryBindings == <<ImportedBufferBinding("camera_uniform"), ImportedBufferBinding("model_uniform")>>

BindDesc(d, set, q) == [op |-> "cmd_bind_raster_descriptor", descriptor |-> d, set |-> set, pipeline |-> q]

\* geometry: 1 depth, 2 descriptor, 3 render pass, 4 pipeline
GeometryCalls ==
    <<[op |-> "add_pass"],
      [op |-> "add_attachment", desc |-> DepthDesc],
      [op |-> "add_descriptor_set", layout |-> "COMMON_DESC_INFO", bindings |-> GeometryBindings],
      [op |-> "add_render_pass", color |-> <<>>, depth |-> <<1>>],
      [op |-> "add_raster_pipeline", vs |-> "vs", layouts |-> <<"COMMON_DESC_INFO">>,
       render_pass |-> 3],
      [op |-> "cmd_begin_render_pass", render_pass |-> 3],
      [op |-> "cmd_bind_raster_pipeline", pipeline |-> 4],
      BindDesc(2, 0, 4),
      [op |-> "cmd_draw_mesh", mesh |-> "cube"],
      [op |-> "cmd_end_render_pass"],
      [op |-> "drop"]>>

\* cull: 5 max_depth, 6 descriptor, and with a render pass of its own 7 render pass, 8 pipeline
CullCalls(o) ==
    <<[op |-> "add_pass"],
      [op |-> "add_attachment",
       desc |-> IF o.storage = "MutableAttachment" THEN MaxDepthDesc ELSE ColorDesc],
      [op |-> "add_descriptor_set", layout |-> "LIGHT_CULL_DESC_INFO",
       bindings |-> <<ImportedBufferBinding("point_lights_sbuffer"),
                      ImportedBufferBinding("light_cull_cbuffer"),
                      IF o.early_read
                      THEN ReadHandleBinding(ReadAttachment(NewAttachmentHandle(1)))
                      ELSE AttachmentBinding(1)>>
                    \o When(o.storage = "MutableAttachment", <<MutableAttachmentBinding(5)>>)]>>
    \o When(o.storage = "ColorAttachment",
            <<[op |-> "add_render_pass", color |-> <<5>>, depth |-> <<>>],
              [op |-> "add_raster_pipeline", vs |-> "vs",
               layouts |-> <<"LIGHT_CULL_DESC_INFO", "COMMON_DESC_INFO">>, render_pass |-> 7]>>
            \o When(o.textured, <<[op |-> "add_buffer", desc |-> StorageDesc]>>)
            \o When(o.cull_begin, <<[op |-> "cmd_begin_render_pass", render_pass |-> 7]>>)
            \o <<[op |-> "cmd_bind_raster_pipeline", pipeline |-> 8], BindDesc(6, 0, 8)>>
            \o When(o.share, <<BindDesc(2, 1, 8)>>)
            \o <<[op |-> "cmd_draw"]>>
            \o When(o.cull_begin, <<[op |-> "cmd_end_render_pass"]>>))
    \o <<[op |-> "drop"]>>

\* The number of resources geometry and cull create
CullResources(o) ==
    IF o.storage = "ColorAttachment" THEN (IF o.textured THEN 9 ELSE 8) ELSE 6

\* fullscreen, after b resources: b+1 output render pass, b+2 pipeline, b+3 descriptor,
\* b+4 the geometry descriptor declared again, and last the twin descriptor
FullscreenCalls(o, b) ==
    <<[op |-> "add_pass"],
      [op |-> "add_output_render_pass"],
      [op |-> "add_raster_pipeline", vs |-> "vs_fullscreen",
       layouts |-> <<"FULLSCREEN_DESC_INFO", "COMMON_DESC_INFO">>, render_pass |-> b + 1],
      [op |-> "add_descriptor_set", layout |-> "FULLSCREEN_DESC_INFO",
       bindings |-> <<AttachmentBinding(5), AttachmentBinding(5)>>
                      \o When(o.textured, <<ImportedTextureBinding("blue_noise")>>)]>>
    \o When(o.redeclare,
            <<[op |-> "add_descriptor_set", layout |-> "COMMON_DESC_INFO",
               bindings |-> GeometryBindings]>>)
    \o When(o.twin,
            <<[op |-> "add_descriptor_set", layout |-> "FULLSCREEN_DESC_INFO",
               bindings |-> <<AttachmentBinding(5), AttachmentBinding(1)>>
                              \o When(o.textured, <<ImportedTextureBinding("blue_noise")>>)]>>)
    \o When(o.textured,
            <<[op |-> "add_descriptor_set", layout |-> "COMMON_DESC_INFO",
               bindings |-> <<BufferBinding(b)>>]>>)
    \o When(o.early_draw, <<[op |-> "cmd_draw"]>>)
    \o <<[op |-> "cmd_begin_render_pass", render_pass |-> b + 1],
          [op |-> "cmd_bind_raster_pipeline", pipeline |-> b + 2],
          BindDesc(b + 3, 0, b + 2)>>
    \o When(o.share, <<BindDesc(2, 1, b + 2)>>)
    \o When(o.redeclare, <<BindDesc(b + 4, 1, b + 2)>>)
    \o <<[op |-> "cmd_draw"], [op |-> "cmd_end_render_pass"], [op |-> "drop"]>>

Script(o) ==
    GeometryCalls \o CullCalls(o)
        \o FullscreenCalls(o, CullResources(o))
        \o <<[op |-> "execute"]>>

Scripts == {Script(o) : o \in Options}

RECURSIVE CmdCount(_)
CmdCount(ps) == IF ps = <<>> THEN 0 ELSE Len(Head(ps).cmds) + CmdCount(Tail(ps))

\* The builder calls made so far
CallsMade ==
    2 * Len(passes) + Len(recorded) + Len(owned_resources) + CmdCount(passes) + CmdCount(recorded)

NextCall == IF CallsMade < Len(script) THEN script[CallsMade + 1] ELSE [op |-> "return"]

InitScenario ==
    /\ NewGraph
    /\ cache = EmptyCache
    /\ frame = 1
    /\ demands = <<>>
    /\ previous = <<>>
    /\ descriptor_heap = EmptyHeap
    /\ heap_calls = <<>>
    /\ script \in Scripts
    /\ NewSwapchain

NextScenario ==
    \/ NextCall.op = "add_pass" /\ AddPass
    \/ NextCall.op = "drop" /\ DropPassBuilder
    \/ NextCall.op = "add_attachment" /\ AddAttachment(NextCall.desc)
    \/ NextCall.op = "add_buffer" /\ AddBuffer(NextCall.desc)
    \/ NextCall.op = "add_render_pass" /\ AddRenderPass(NextCall.color, NextCall.depth)
    \/ NextCall.op = "add_output_render_pass" /\ AddOutputRenderPass
    \/ NextCall.op = "add_descriptor_set" /\ AddDescriptorSet(NextCall.layout, NextCall.bindings)
    \/ NextCall.op = "add_raster_pipeline"
          /\ AddRasterPipeline(NextCall.vs, NextCall.layouts, NextCall.render_pass)
    \/ NextCall.op = "cmd_begin_render_pass" /\ CmdBeginRenderPass(NextCall.render_pass)
    \/ NextCall.op = "cmd_end_render_pass" /\ CmdEndRenderPass
    \/ NextCall.op = "cmd_bind_raster_pipeline" /\ CmdBindRasterPipeline(NextCall.pipeline)
    \/ NextCall.op = "cmd_bind_raster_descriptor"
          /\ CmdBindRasterDescriptor(NextCall.descriptor, NextCall.set, NextCall.pipeline)
    \/ NextCall.op = "cmd_draw_mesh" /\ CmdDrawMesh(NextCall.mesh)
    \/ NextCall.op = "cmd_draw" /\ CmdDraw
    \/ NextCall.op = "execute" /\ Execute
    \/ AllocAttachments
    \/ AllocBuffers
    \/ AllocDescriptors
    \/ AllocRenderPasses
    \/ AllocRasterPipelines
    \/ ReplayPass

SpecScenario == InitScenario /\ [][NextScenario]_vars

(***************************************************************************)
(* SpecRepeat: Game::update called frame after frame.  Every frame builds  *)
(* the graph of the same script against the one cache and executes it;     *)
(* `previous` keeps what the frame before ended with.  The cache is new,   *)
(* or is the cache of SpecWorn that earlier frames have used.              *)
(***************************************************************************)
InitRepeat ==
    /\ NewGraph
    /\ cache \in {EmptyCache, WornCache}
    /\ frame = 1
    /\ demands = <<>>
    /\ previous = <<>>
    /\ descriptor_heap = EmptyHeap
    /\ heap_calls = <<>>
    /\ script \in Scripts
    /\ NewSwapchain

FrameEnd ==
    [owned_resources |-> owned_resources,
     imported_resources |-> imported_resources,
     cache |-> cache,
     resource_map |-> resource_map]

NextUpdate == MayStartFrame /\ NewFrame /\ previous' = <<FrameEnd>>

NextRepeat ==
    \/ NextScenario
    \/ NextUpdate
    \/ DestroyCache

SpecRepeat == InitRepeat /\ [][NextRepeat]_vars

(***************************************************************************)
(* SpecHeap: one VulkanDescriptorHeap and the calls of its two methods.    *)
(* The heap starts as create_descriptor_heap made it, or as it is after a  *)
(* number of allocs; the handle given to free names one of FreedIds.       *)
(* A panic of free ends the process.                                       *)
(***************************************************************************)
MaxHeapCalls == 4

HeapStarts == {0, 1, 2, max_sets - 2, max_sets - 1, max_sets}

FreedIds == {0, 1, max_sets - 2, max_sets - 1}

InitHeap ==
    /\ NewGraph
    /\ cache = EmptyCache
    /\ frame = 1
    /\ demands = <<>>
    /\ previous = <<>>
    /\ script = <<>>
    /\ NewSwapchain
    /\ descriptor_heap \in {HeapAfter(n) : n \in HeapStarts}
    /\ heap_calls = <<>>

HeapRunning ==
    /\ Len(heap_calls) < MaxHeapCalls
    /\ \A i \in DOMAIN heap_calls : ~heap_calls[i].panic

HeapAlloc ==
    /\ HeapRunning
    /\ LET a == heap_alloc(descriptor_heap)
       IN /\ descriptor_heap' = a.heap
          /\ heap_calls' = Append(heap_calls, [call |-> "alloc", id |-> a.id,
                                               some |-> a.some, panic |-> FALSE])
    /\ UNCHANGED <<render_vars_but_heap, pacer_vars>>

HeapFree ==
    /\ HeapRunning
    /\ \E id \in FreedIds :
          LET f == heap_free(descriptor_heap, id)
          IN /\ descriptor_heap' = f.heap
             /\ heap_calls' = Append(heap_calls, [call |-> "free", id |-> id,
                                                  some |-> FALSE, panic |-> f.panic])
    /\ UNCHANGED <<render_vars_but_heap, pacer_vars>>

NextHeap ==
    \/ HeapAlloc
    \/ HeapFree

SpecHeap == InitHeap /\ [][NextHeap]_vars

(***************************************************************************)
(* SpecFrames: frame pacing and deferred destruction of the Vulkan         *)
(* backend: VulkanGraphicsContext::begin_frame / end_frame around          *)
(* VulkanSwapchain::acquire / submit, VulkanDevice::queue_destruction,     *)
(* and the GPU completing the submitted frames in order.  acquire() holds  *)
(* the Mutex of VulkanDevice.frame from its first line to its return, so   *)
(* no other call on the device interleaves with it; the GPU does.          *)
(***************************************************************************)
\* A wait that returns at once, whatever the fence
FenceNoWait(s) == TRUE

\* fence.wait() returns: the fence of slot s is signaled
FenceWait(s) == fences[s]

\* The frame slot after slot f
NextFrameStay(f) == f

NextFrameSlot(f) == (f + 1) % MAX_FRAMES_IN_FLIGHT

InFlightIds == {in_flight[i].id : i \in DOMAIN in_flight}

\* run_destructor on each destructor of the sequence, in order
\* A drain that empties the queue without running what it held
RunDestructorsSkipped(destructors) == runs

RunDestructors(destructors) ==
    runs \o [i \in DOMAIN destructors |-> [id |-> destructors[i], in_flight |-> InFlightIds]]

\* device_wait_idle: every submitted frame completes, which signals its fence
WaitIdle ==
    /\ in_flight' = <<>>
    /\ fences' = [s \in FrameSlots |-> TRUE]

\* An invalidate that leaves the swapchain as it is
InvalidateSkipped == UNCHANGED <<in_flight, fences, images>>

\* VulkanSwapchain::invalidate: wait_idle, then the images are created anew
Invalidate ==
    /\ WaitIdle
    /\ images' = NewImages

\* begin_frame up to the first line of acquire(): lock, read the current frame
BeginFrame ==
    /\ swap_pc = "idle"
    /\ current_frame_info = <<>>
    /\ submitted < MaxSubmits
    /\ swap_pc' = "acquire_wait"
    /\ UNCHANGED <<update_pc, per_frame, fences, command_pools, images, current_frame_info, image_index,
                   in_flight, submitted, awaited, runs>>
    /\ UNCHANGED render_vars

\* acquire(): frame.completed_fence.wait()
AcquireWait ==
    /\ swap_pc = "acquire_wait"
    /\ FenceWait(per_frame.frame)
    /\ swap_pc' = "acquire_drain"
    /\ UNCHANGED <<update_pc, per_frame, fences, command_pools, images, current_frame_info, image_index,
                   in_flight, submitted, awaited, runs>>
    /\ UNCHANGED render_vars

\* acquire(): take the destructors of the current frame, run them, clear the queue
AcquireDrain ==
    /\ swap_pc = "acquire_drain"
    /\ runs' = RunDestructors(per_frame.destructors[per_frame.frame])
    /\ per_frame' = [per_frame EXCEPT !.destructors[per_frame.frame] = <<>>]
    /\ swap_pc' = "acquire_image"
    /\ UNCHANGED <<update_pc, fences, command_pools, images, current_frame_info, image_index,
                   in_flight, submitted, awaited>>
    /\ UNCHANGED render_vars

\* acquire(): acquire_next_image returns an image
AcquireNextImageOk ==
    /\ swap_pc = "acquire_image"
    /\ \E i \in DOMAIN images : image_index' = i
    /\ swap_pc' = "acquire_image_wait"
    /\ UNCHANGED <<update_pc, per_frame, fences, command_pools, images, current_frame_info,
                   in_flight, submitted, awaited, runs>>
    /\ UNCHANGED render_vars

\* acquire(): acquire_next_image reports suboptimal or fails; acquire returns
\* Err and begin_frame invalidates the swapchain
AcquireNextImageErr ==
    /\ swap_pc = "acquire_image"
    /\ Invalidate
    /\ swap_pc' = "idle"
    /\ update_pc' = "returned_err"
    /\ UNCHANGED <<per_frame, command_pools, current_frame_info, image_index,
                   submitted, awaited, runs>>
    /\ UNCHANGED render_vars

\* acquire(): wait for the fence of the frame that used the image before, take
\* the image for this frame, recycle the command pool and begin the command
\* buffer; begin_frame stores the FrameInfo
AcquireFinish ==
    /\ swap_pc = "acquire_image_wait"
    /\ \A i \in DOMAIN images[image_index].available_fence :
          FenceWait(images[image_index].available_fence[i])
    /\ images' = [images EXCEPT ![image_index].available_fence = <<per_frame.frame>>]
    /\ command_pools' = [command_pools EXCEPT ![per_frame.frame] = "recording"]
    /\ current_frame_info' = <<[image_index |-> image_index, frame_index |-> per_frame.frame]>>
    /\ swap_pc' = "idle"
    /\ update_pc' = "graph"
    /\ UNCHANGED <<per_frame, fences, image_index, in_flight, submitted, awaited, runs>>
    /\ UNCHANGED render_vars

\* begin_frame called while a frame is open: the assert fails
BeginFrameWhileOpen ==
    /\ swap_pc = "idle"
    /\ current_frame_info # <<>>
    /\ swap_pc' = "panic_begin_frame"
    /\ UNCHANGED <<update_pc, per_frame, fences, command_pools, images, current_frame_info,
                   image_index, in_flight, submitted, awaited, runs>>
    /\ UNCHANGED render_vars

\* Game::update after begin_frame returned Ok: the frame's graph is built and
\* executed, which queues its commands on the context
ExecuteGraph ==
    /\ swap_pc = "idle"
    /\ update_pc = "graph"
    /\ update_pc' = "end_frame"
    /\ UNCHANGED <<per_frame, fences, command_pools, images, current_frame_info, swap_pc,
                   image_index, in_flight, submitted, awaited, runs>>
    /\ UNCHANGED render_vars

\* An end_frame that looks at the frame info without taking it
KeepFrameInfo == UNCHANGED current_frame_info

\* end_frame: self.current_frame_info.take()
TakeFrameInfo == current_frame_info' = <<>>

\* end_frame with a frame open, up to and including the advance of the frame
\* index in submit()
Submit ==
    /\ update_pc = "end_frame"
    /\ TakeFrameInfo
    /\ command_pools' = [command_pools EXCEPT ![per_frame.frame] = "pending"]
    /\ per_frame' = [per_frame EXCEPT !.frame = NextFrameSlot(per_frame.frame)]
    /\ submitted' = submitted + 1
    /\ update_pc' = "returned"

\* end_frame: submit, queue_present succeeds
EndFrame ==
    /\ swap_pc = "idle"
    /\ current_frame_info # <<>>
    /\ Submit
    /\ fences' = [fences EXCEPT ![per_frame.frame] = FALSE]
    /\ in_flight' = Append(in_flight, [id |-> submitted + 1, slot |-> per_frame.frame])
    /\ UNCHANGED <<images, swap_pc, image_index, awaited, runs>>
    /\ UNCHANGED render_vars

\* end_frame: submit, queue_present reports suboptimal or out of date;
\* end_frame invalidates the swapchain
EndFrameSuboptimal ==
    /\ swap_pc = "idle"
    /\ current_frame_info # <<>>
    /\ Submit
    /\ Invalidate
    /\ UNCHANGED <<swap_pc, image_index, awaited, runs>>
    /\ UNCHANGED render_vars

\* end_frame: submit, queue_present fails otherwise: panic
EndFramePanic ==
    /\ swap_pc = "idle"
    /\ current_frame_info # <<>>
    /\ Submit
    /\ fences' = [fences EXCEPT ![per_frame.frame] = FALSE]
    /\ in_flight' = Append(in_flight, [id |-> submitted + 1, slot |-> per_frame.frame])
    /\ swap_pc' = "panic_present"
    /\ UNCHANGED <<images, image_index, awaited, runs>>
    /\ UNCHANGED render_vars

\* end_frame called with no frame open: panic
EndFrameNotBegun ==
    /\ swap_pc = "idle"
    /\ current_frame_info = <<>>
    /\ swap_pc' = "panic_end_frame"
    /\ UNCHANGED <<update_pc, per_frame, fences, command_pools, images, current_frame_info,
                   image_index, in_flight, submitted, awaited, runs>>
    /\ UNCHANGED render_vars

\* queue_destruction(&mut [destructor]): push onto the queue of the current frame
QueueDestruction ==
    /\ swap_pc = "idle"
    /\ Len(awaited) < MaxQueued
    /\ per_frame' = [per_frame EXCEPT !.destructors[per_frame.frame] =
                                          Append(@, Len(awaited) + 1)]
    /\ awaited' = Append(awaited, InFlightIds)
    /\ UNCHANGED <<update_pc, fences, command_pools, images, current_frame_info, swap_pc, image_index,
                   in_flight, submitted, runs>>
    /\ UNCHANGED render_vars

\* The GPU finishes the oldest submitted frame and signals its fence
GpuComplete ==
    /\ in_flight # <<>>
    /\ fences' = [fences EXCEPT ![Head(in_flight).slot] = TRUE]
    /\ in_flight' = Tail(in_flight)
    /\ UNCHANGED <<update_pc, per_frame, command_pools, images, current_frame_info, swap_pc, image_index,
                   submitted, awaited, runs>>
    /\ UNCHANGED render_vars

\* VulkanDevice::destroy: wait_idle, then run the destructors of every queue
DestroyDevice ==
    /\ swap_pc = "idle"
    /\ current_frame_info = <<>>
    /\ WaitIdle
    /\ runs' = runs \o [i \in DOMAIN Flatten([s \in 1..MAX_FRAMES_IN_FLIGHT |->
                                                  per_frame.destructors[s - 1]]) |->
                           [id |-> Flatten([s \in 1..MAX_FRAMES_IN_FLIGHT |->
                                               per_frame.destructors[s - 1]])[i],
                            in_flight |-> {}]]
    /\ per_frame' = [per_frame EXCEPT !.destructors = [s \in FrameSlots |-> <<>>]]
    /\ swap_pc' = "destroyed"
    /\ UNCHANGED <<update_pc, command_pools, images, current_frame_info, image_index, submitted, awaited>>
    /\ UNCHANGED render_vars

NextFrames ==
    \/ BeginFrame
    \/ BeginFrameWhileOpen
    \/ ExecuteGraph
    \/ EndFrameNotBegun
    \/ AcquireWait
    \/ AcquireDrain
    \/ AcquireNextImageOk
    \/ AcquireNextImageErr
    \/ AcquireFinish
    \/ EndFrame
    \/ EndFrameSuboptimal
    \/ EndFramePanic
    \/ QueueDestruction
    \/ GpuComplete
    \/ DestroyDevice

SpecFrames == Init /\ [][NextFrames]_vars

(***************************************************************************)
(* What the claims speak of.                                               *)
(***************************************************************************)
\* execute() has passed the output check and resolved the pass order
Resolved ==
    pc \in {"alloc_attachments", "alloc_buffers", "alloc_descriptors", "alloc_render_passes",
            "alloc_raster_pipelines", "replay", "done", "panic_descriptor_heap"}

Selected == Range(pass_order)

\* The positions in ctx of the calls replayed from pass p
CallsOf(p) == {i \in DOMAIN ctx : ctx[i].pass = p}

ReadIds(p) ==
    {h.id : h \in passes[p].read_attachments} \cup {h.id : h \in passes[p].read_buffers}

WriteIds(p) ==
    {h.id : h \in passes[p].write_attachments} \cup {h.id : h \in passes[p].write_buffers}

\* The read-dependency edges of pass p: the owners of what p reads
ReadEdges(p) == {resource_to_owning_pass[r] : r \in ReadIds(p)}

RECURSIVE ReachableFrom(_)
ReachableFrom(S) ==
    LET n == S \cup UNION {ReadEdges(p) : p \in S}
    IN IF n = S THEN S ELSE ReachableFrom(n)

OutputPass == resource_to_owning_pass[CHOOSE r \in Outputs : TRUE]

\* Every command of pass p has reached the context
FullyReplayed(p) == {ctx[i].cmd : i \in CallsOf(p)} = DOMAIN passes[p].cmds

(***************************************************************************)
(* C1.  If a selected pass Q reads an attachment or buffer that is in the  *)
(* write-set of another pass P, then P is in the resolved order, before Q, *)
(* and every command of P is replayed before any command of Q.             *)
(***************************************************************************)
C1_WriterBeforeReader ==
    Resolved =>
        \A q \in Selected, p \in DOMAIN passes :
            (p # q /\ WriteIds(p) \cap ReadIds(q) # {}) =>
                /\ p \in Selected
                /\ \A i \in CallsOf(p), j \in CallsOf(q) : i < j
                /\ pc = "done" => FullyReplayed(p)

(***************************************************************************)
(* C2.  execute() panics exactly when the number of OutputRenderPass       *)
(* resources is not one: with zero or with two or more it ends in the      *)
(* panic, with exactly one it goes on to dependency resolution.            *)
(***************************************************************************)
C2_SingleSink ==
    pc \notin {"build", "panic_unimplemented"} =>
        (pc = "panic_output" <=> Cardinality(Outputs) # 1)

C2_Witness == pc = "panic_output" /\ Cardinality(Outputs) = 2

(***************************************************************************)
(* C3.  execute() replays exactly the passes reachable from the output     *)
(* pass over read-dependency edges: the resolved order is that set, each   *)
(* pass once; no call replayed from a pass outside it ever reaches the     *)
(* context; and when execute() returns every command of every reachable    *)
(* pass has been replayed.                                                 *)
(***************************************************************************)
C3_ExactlyReachable ==
    Resolved =>
        /\ Selected = ReachableFrom({OutputPass})
        /\ Len(pass_order) = Cardinality(Selected)
        /\ \A i \in DOMAIN ctx : ctx[i].pass # 0 => ctx[i].pass \in ReachableFrom({OutputPass})
        /\ pc = "done" => \A p \in ReachableFrom({OutputPass}) : FullyReplayed(p)

\* Three passes, one of them unreachable and holding a command, one reachable
\* only through a read, all replayed that are reachable
C3_Witness ==
    /\ pc = "done"
    /\ Len(passes) = 3
    /\ Cardinality(Selected) = 2
    /\ \E p \in DOMAIN passes : p \notin Selected /\ passes[p].cmds # <<>>
    /\ \A p \in Selected : CallsOf(p) # {}

(***************************************************************************)
(* C10.  Within one execution the virtual-to-physical maps are stable (an  *)
(* id, once mapped, keeps its physical object) and the attachment map and  *)
(* the buffer map are injective.                                           *)
(***************************************************************************)
Injective(m) == \A a, b \in DOMAIN m : a # b => m[a] # m[b]

Extends(m, n) == \A v \in DOMAIN m : v \in DOMAIN n /\ n[v] = m[v]

MapsStable ==
    frame' = frame =>
        /\ Extends(resource_map.attachment_map, resource_map.attachment_map')
        /\ Extends(resource_map.buffer_map, resource_map.buffer_map')
        /\ Extends(resource_map.descriptor_map, resource_map.descriptor_map')
        /\ Extends(resource_map.render_pass_map, resource_map.render_pass_map')
        /\ Extends(resource_map.framebuffer_map, resource_map.framebuffer_map')
        /\ Extends(resource_map.raster_pipeline_map, resource_map.raster_pipeline_map')

C10_StableInjective ==
    /\ [](Injective(resource_map.attachment_map) /\ Injective(resource_map.buffer_map))
    /\ [][MapsStable]_vars

\* Two virtual attachments of one key and a virtual buffer, mapped
C10_Witness ==
    /\ pc = "done"
    /\ Cardinality(DOMAIN resource_map.attachment_map) >= 2
    /\ Cardinality(DOMAIN resource_map.buffer_map) >= 1

(***************************************************************************)
(* C14.  In every graph built through PassBuilder each virtual attachment  *)
(* or buffer id occurs in the write-set of at most one pass, and that pass *)
(* is the pass that created it.                                            *)
(***************************************************************************)
AllPasses == passes \o recorded

WriteIdsOf(r) ==
    {h.id : h \in r.write_attachments} \cup {h.id : h \in r.write_buffers}

C14_WrittenByCreatorOnly ==
    \A i \in DOMAIN AllPasses :
        \A id \in WriteIdsOf(AllPasses[i]) : resource_to_owning_pass[id] = AllPasses[i].pass

(***************************************************************************)
(* C16.  In the render-pass cache key the allocator builds, an attachment  *)
(* of the render pass that a later pass reads has the final image layout   *)
(* ShaderReadOnlyOptimal in its attachment description.                    *)
(***************************************************************************)
RenderPassesAllocated == pc \in {"alloc_raster_pipelines", "replay", "done"}

ReadLater(id, p) == \E q \in DOMAIN passes : q > p /\ id \in ReadIds(q)

\* The final layouts, in the key of the physical render pass of rp, of the
\* attachments of rp that a pass after the owner of rp reads
FinalLayoutsOfReadLater(rp) ==
    LET r == owned_resources[rp]
        key == cache.render_passes[resource_map.render_pass_map[rp]]
    IN {key.color_attachment_descs[i].final_layout :
            i \in {j \in DOMAIN r.color_attachments :
                      ReadLater(r.color_attachments[j].id, resource_to_owning_pass[rp])}}
         \cup {key.depth_attachment_desc[i].final_layout :
                  i \in {j \in DOMAIN r.depth_attachment :
                            ReadLater(r.depth_attachment[j].id, resource_to_owning_pass[rp])}}

C16_ReadLaterFinalLayout ==
    RenderPassesAllocated =>
        \A rp \in IdsOfKind("RenderPass") :
            FinalLayoutsOfReadLater(rp) \subseteq {"ShaderReadOnlyOptimal"}

(***************************************************************************)
(* C18.  execute() ends fatally when a selected pass reads an attachment   *)
(* or buffer that is in no pass's write-set: it never returns normally     *)
(* from such a graph.                                                      *)
(***************************************************************************)
ReadsUnwritten(q) == \E id \in ReadIds(q) : \A p \in DOMAIN passes : id \notin WriteIds(p)

C18_UnwrittenReadIsFatal ==
    pc = "done" => \A q \in Selected : ~ReadsUnwritten(q)

(***************************************************************************)
(* C19.  The resolver does not check for cycles: when the read-dependency  *)
(* relation reachable from the output pass contains a cycle (a pass reads  *)
(* a resource it created itself; a builder can read only what exists, so   *)
(* longer cycles cannot be built), execute() reports no error of its own:  *)
(* the resolution recurses without end.                                    *)
(***************************************************************************)
CycleReachable ==
    \E p \in ReachableFrom({OutputPass}) : p \in ReachableFrom(ReadEdges(p))

PossibleOrders ==
    {Retain(Reverse(<<OutputPass>> \o pushed), {}) :
        pushed \in resolve_pass_dependencies(OutputPass)}

C20_DeterministicOrder ==
    Resolved => \A o \in PossibleOrders : o = pass_order

(***************************************************************************)
(* C17.  execute() is all-or-nothing: when it ends fatally no cache pool   *)
(* has been modified and no descriptor update or command has reached the   *)
(* device or the context; when it returns, the allocation is complete and  *)
(* the whole resolved pass order has been replayed.  (Unmodified, the      *)
(* cache is as it was before the graph was executed: empty, or as the      *)
(* earlier frames left it.)                                                *)
(***************************************************************************)
Fatal == pc \in {"panic_output", "stack_overflow", "panic_descriptor_heap"}

C17_AllOrNothing ==
    /\ Fatal => cache \in {EmptyCache, WornCache} /\ ctx = <<>> /\ device = <<>>
    /\ pc = "done" => replayed = Len(pass_order) /\ \A p \in Selected : FullyReplayed(p)

(***************************************************************************)
(* C21.  Every PassBuilder obtained from add_pass appends its RecordedPass *)
(* to the pass list exactly once, when the builder goes out of scope: the  *)
(* pass list changes only by the append of the open builder's pass, every  *)
(* builder that goes away has appended, and the pass at list index i is    *)
(* the pass with id i (ids are counted from 1 here, from 0 in the source). *)
(***************************************************************************)
BuilderGone == recorded # <<>> /\ recorded' = <<>>

PassListStep ==
    frame' = frame =>
        /\ BuilderGone => passes' = Append(passes, recorded[1])
        /\ passes' # passes => BuilderGone
        /\ recorded = <<>> /\ recorded' # <<>> =>
               recorded'[1].pass = Len(passes) + 1 /\ passes' = passes

C21_AppendedOnceOnDrop ==
    /\ [](\A i \in DOMAIN passes : passes[i].pass = i)
    /\ [][PassListStep]_vars

C21_Witness ==
    /\ Len(passes) = MaxPasses
    /\ recorded = <<>>
    /\ \E i \in DOMAIN passes : passes[i].cmds # <<>> /\ passes[i].write_attachments # {}

(***************************************************************************)
(* C30.  When the number of output render passes is not exactly one,       *)
(* execute() panics before any cache pool is changed and before any device *)
(* creation call, descriptor update or context command is issued: the step *)
(* that ends in the panic leaves the cache, the device and the context as  *)
(* they were, and execute() never gets any further with such a graph.      *)
(***************************************************************************)
OutputPanicStep ==
    pc' = "panic_output" /\ pc # "panic_output" =>
        /\ Cardinality(Outputs) # 1
        /\ cache' = cache /\ device' = device /\ ctx' = ctx
        /\ resource_map' = resource_map /\ pass_order' = pass_order

C30_OutputPanicBeforeAnyEffect ==
    /\ [](Cardinality(Outputs) # 1 /\ pc \notin {"build", "panic_unimplemented"} =>
              pc = "panic_output" /\ device = <<>> /\ ctx = <<>>)
    /\ [][OutputPanicStep]_vars

C30_Witness ==
    /\ pc = "panic_output"
    /\ Cardinality(Outputs) = 2
    /\ Len(passes) = 2
    /\ DescriptorIds # {}

(***************************************************************************)
(* C31.  In a graph in which no pass reads a resource it created itself,    *)
(* the owning pass of every read dependency has a smaller pass index than   *)
(* the pass that reads it; so the dependency resolution of execute()        *)
(* returns, and the resolved order holds each pass reachable from the       *)
(* output pass exactly once, the output pass last.                          *)
(***************************************************************************)
NoOwnReads == \A p \in DOMAIN passes : p \notin ReadEdges(p)

OwnersPrecedeReaders == \A p \in DOMAIN passes : \A d \in ReadEdges(p) : d < p

Occurrences(p) == Cardinality({i \in DOMAIN pass_order : pass_order[i] = p})

C31_OwnersPrecedeReaders ==
    NoOwnReads =>
        /\ OwnersPrecedeReaders
        /\ pc # "stack_overflow"
        /\ Resolved =>
              /\ \A p \in DOMAIN passes :
                    Occurrences(p) = IF p \in ReachableFrom({OutputPass}) THEN 1 ELSE 0
              /\ pass_order[Len(pass_order)] = OutputPass

\* The output pass reads a resource of the first pass, the second pass reads
\* one too and is left out, and the graph has been replayed
C31_Witness ==
    /\ pc = "done" /\ NoOwnReads
    /\ Len(passes) = 3
    /\ ReadEdges(3) = {1} /\ ReadEdges(2) = {1}
    /\ OutputPass = 3
    /\ pass_order = <<1, 3>>

(***************************************************************************)
(* Frame pacing and deferred destruction.                                  *)
(***************************************************************************)
\* The frame slot whose queue or command pool the step touches
Drained(s) == Len(per_frame'.destructors[s]) < Len(per_frame.destructors[s])

PoolReset(s) == command_pools'[s] = "recording" /\ command_pools[s] # "recording"

InAcquire == swap_pc \in {"acquire_wait", "acquire_drain", "acquire_image", "acquire_image_wait"}

(***************************************************************************)
(* C11.  run_destructor is invoked on a queued resource only when every    *)
(* frame that had been submitted before its queue_destruction call has     *)
(* completed on the GPU: none of the frames that were in flight when the   *)
(* resource was queued is still in flight when its destructor runs.        *)
(***************************************************************************)
C11_DestroyAfterGpuDone ==
    \A i \in DOMAIN runs : awaited[runs[i].id] \cap runs[i].in_flight = {}

(***************************************************************************)
(* C12.  At most MAX_FRAMES_IN_FLIGHT = 2 frames are submitted and not     *)
(* completed, the frame-slot index is always 0 or 1, every submit advances *)
(* it by one modulo 2, and no other step (a failed acquire included)       *)
(* changes it.                                                             *)
(***************************************************************************)
SlotStep ==
    /\ submitted' # submitted =>
          /\ submitted' = submitted + 1
          /\ per_frame'.frame = (per_frame.frame + 1) % 2
    /\ submitted' = submitted => per_frame'.frame = per_frame.frame

C12_TwoFramesInFlight ==
    /\ [](Len(in_flight) <= 2 /\ per_frame.frame \in {0, 1})
    /\ [][SlotStep]_vars

\* Two frames in flight, the slot index back at 0 after two submits
C12_Witness ==
    /\ Len(in_flight) = 2
    /\ submitted = 2
    /\ per_frame.frame = 0

(***************************************************************************)
(* C13.  In acquire() the destructor queue of the current frame slot is    *)
(* drained and the slot's command pool is reset only after the wait on the *)
(* slot's completion fence has returned, that is inside acquire, past the  *)
(* wait, with the fence signaled; and when acquire returns the queue of    *)
(* that slot is empty.                                                     *)
(***************************************************************************)
AcquireStep ==
    /\ InAcquire =>
          \A s \in FrameSlots :
              (Drained(s) \/ PoolReset(s)) =>
                  /\ s = per_frame.frame
                  /\ swap_pc \in {"acquire_drain", "acquire_image_wait"}
                  /\ fences[s]
    /\ (InAcquire /\ swap_pc' = "idle") => per_frame'.destructors[per_frame.frame] = <<>>

C13_DrainAfterFenceWait == [][AcquireStep]_vars

\* acquire has returned slot 0 for the second time, after it waited for the
\* frame submitted on that slot and drained a queue that held a destructor
C13_Witness ==
    /\ swap_pc = "idle"
    /\ current_frame_info # <<>>
    /\ current_frame_info[1].frame_index = 0
    /\ command_pools[0] = "recording"
    /\ submitted = 2
    /\ runs # <<>>
    /\ per_frame.destructors[0] = <<>>

(***************************************************************************)
(* C26.  When acquire reports suboptimal or out-of-date, begin_frame       *)
(* invalidates the swapchain and returns the error: no frame is open, the  *)
(* frame-slot index is unchanged and nothing has been submitted; the       *)
(* caller executes a graph only in a frame that begin_frame has opened,    *)
(* none for the failed frame; and the next begin_frame is accepted (the    *)
(* context is idle with no frame open, all that begin_frame asks for).     *)
(***************************************************************************)
AcquireFailed == swap_pc = "acquire_image" /\ swap_pc' = "idle"

GraphExecuted == update_pc # "end_frame" /\ update_pc' = "end_frame"

C26_AcquireErrorStep ==
    /\ AcquireFailed =>
          /\ images' = NewImages /\ in_flight' = <<>> /\ \A s \in FrameSlots : fences'[s]
          /\ current_frame_info' = <<>>
          /\ per_frame'.frame = per_frame.frame
          /\ submitted' = submitted
          /\ update_pc' = "returned_err"
    /\ GraphExecuted => current_frame_info # <<>> /\ update_pc # "returned_err"
    /\ update_pc = "returned_err" /\ update_pc' # "returned_err" =>
          swap_pc = "acquire_image_wait" /\ current_frame_info' # <<>>

C26_AcquireErrorLeavesNoFrame ==
    /\ [](update_pc = "returned_err" /\ swap_pc = "idle" => current_frame_info = <<>>)
    /\ [][C26_AcquireErrorStep]_vars

\* begin_frame has returned the error for the third frame, the swapchain is
\* invalidated, and the next begin_frame has been accepted
C26_Witness ==
    /\ update_pc = "returned_err"
    /\ swap_pc = "acquire_wait"
    /\ submitted = 2
    /\ per_frame.frame = 0
    /\ images = NewImages
    /\ in_flight = <<>>

(***************************************************************************)
(* C29.  begin_frame and end_frame strictly alternate: begin_frame while a *)
(* frame is open panics and starts no acquire, end_frame with no open      *)
(* frame panics and submits nothing, and after end_frame returns no frame  *)
(* is open, whether the submit succeeded or the swapchain was invalidated. *)
(***************************************************************************)
EndFrameReturned == submitted' = submitted + 1 /\ swap_pc' = "idle"

C29_AlternationStep ==
    /\ swap_pc' = "acquire_wait" => current_frame_info = <<>>
    /\ swap_pc' = "panic_begin_frame" => current_frame_info # <<>> /\ submitted' = submitted
    /\ submitted' # submitted => current_frame_info # <<>>
    /\ swap_pc' = "panic_end_frame" => current_frame_info = <<>> /\ submitted' = submitted
    /\ EndFrameReturned => current_frame_info' = <<>>
    /\ current_frame_info = <<>> /\ current_frame_info' # <<>> => swap_pc = "acquire_image_wait"

C29_StrictAlternation == [][C29_AlternationStep]_vars

\* A third frame is open after two end_frame calls, one of which invalidated
\* the swapchain
C29_Witness ==
    /\ swap_pc = "idle"
    /\ current_frame_info # <<>>
    /\ update_pc = "end_frame"
    /\ submitted = 2
    /\ images[1].available_fence = <<>>
    /\ in_flight = <<>>
    /\ command_pools[1] = "pending"

(***************************************************************************)
(* Barriers and descriptor writes.                                         *)
(***************************************************************************)
BarriersOf(p) == {i \in CallsOf(p) : ctx[i].call = "pipeline_barrier"}

\* The update_descriptor calls made for the virtual descriptor set d
UpdatesFor(d) == {i \in DOMAIN ctx : ctx[i].call = "update_descriptor" /\ ctx[i].virtual = d}

\* The passes whose replayed commands bound the virtual descriptor set d
BindersOf(d) == {ctx[i].pass : i \in {j \in DOMAIN ctx : ctx[j].call = "bind_descriptor" /\ ctx[j].virtual = d}}

DescriptorsAllocated == pc \in {"alloc_render_passes", "alloc_raster_pipelines", "replay", "done"}

(***************************************************************************)
(* C4.  When execute() has returned, the replay of each selected pass has  *)
(* issued exactly one barrier per attachment and one per buffer of the     *)
(* pass's read-set and no other barrier, and every barrier of the pass     *)
(* came before every other call replayed from the pass.                    *)
(***************************************************************************)
C4_BarriersPerPass ==
    pc = "done" =>
        \A p \in Selected :
            /\ \A h \in passes[p].read_attachments :
                  Cardinality({i \in BarriersOf(p) : ctx[i].kind = "image" /\ ctx[i].virtual = h.id}) = 1
            /\ \A h \in passes[p].read_buffers :
                  Cardinality({i \in BarriersOf(p) : ctx[i].kind = "buffer" /\ ctx[i].virtual = h.id}) = 1
            /\ Cardinality(BarriersOf(p)) =
                  Cardinality(passes[p].read_attachments) + Cardinality(passes[p].read_buffers)
            /\ \A i \in BarriersOf(p), j \in CallsOf(p) \ BarriersOf(p) : i < j

(***************************************************************************)
(* C5.  Scenario A, the frame code of Game::update: the graph can be built *)
(* and executed, the replay order is geometry, cull, fullscreen, and a     *)
(* barrier taking the depth attachment from DepthStencilAttachmentOptimal  *)
(* to ShaderReadOnlyOptimal is issued after the calls of geometry and      *)
(* before the calls of cull.                                               *)
(***************************************************************************)
ScenarioA ==
    Script([storage |-> "MutableAttachment", cull_begin |-> FALSE, share |-> FALSE,
            redeclare |-> FALSE, early_draw |-> FALSE, early_read |-> FALSE,
            twin |-> FALSE, textured |-> FALSE])

C5_ScenarioA ==
    script = ScenarioA =>
        /\ pc \notin {"panic_unimplemented", "panic_output", "stack_overflow", "panic_descriptor_heap"}
        /\ pc = "done" =>
              /\ pass_order = <<1, 2, 3>>
              /\ \E i \in DOMAIN ctx :
                    /\ ctx[i].call = "pipeline_barrier"
                    /\ ctx[i].kind = "image"
                    /\ ctx[i].virtual = 1
                    /\ ctx[i].old_layout = "DepthStencilAttachmentOptimal"
                    /\ ctx[i].new_layout = "ShaderReadOnlyOptimal"
                    /\ \A j \in CallsOf(1) : j < i
                    /\ \A j \in CallsOf(2) \ BarriersOf(2) : i < j

(***************************************************************************)
(* C15.  Every barrier issued for a read attachment or buffer that some    *)
(* pass wrote carries as source stage, source access and old layout the    *)
(* values the writing pass set on the mutable handle (color output:        *)
(* COLOR_ATTACHMENT_OUTPUT, COLOR_ATTACHMENT_WRITE, ColorAttachmentOptimal;*)
(* depth output: LATE_FRAGMENT_TESTS, DEPTH_STENCIL_ATTACHMENT_WRITE,      *)
(* DepthStencilAttachmentOptimal) and as destination the shader-read       *)
(* profile with new layout ShaderReadOnlyOptimal, whenever the read handle *)
(* was derived.                                                            *)
(***************************************************************************)
Written(id) == \E p \in DOMAIN passes : id \in WriteIds(p)

C15_BarrierSourceOfLastWriter ==
    \A i \in DOMAIN ctx :
        (ctx[i].call = "pipeline_barrier" /\ Written(ctx[i].virtual)) =>
            /\ ctx[i].src_stage = handles[ctx[i].virtual].stage
            /\ ctx[i].src_access = handles[ctx[i].virtual].access
            /\ ctx[i].dst_stage = SHADER_STAGES
            /\ ctx[i].dst_access = "SHADER_READ"
            /\ ctx[i].kind = "image" =>
                  /\ ctx[i].old_layout = handles[ctx[i].virtual].layout
                  /\ ctx[i].new_layout = "ShaderReadOnlyOptimal"
                  /\ <<ctx[i].src_stage, ctx[i].src_access, ctx[i].old_layout>> \in
                        {<<"COLOR_ATTACHMENT_OUTPUT", "COLOR_ATTACHMENT_WRITE",
                           "ColorAttachmentOptimal">>,
                         <<"LATE_FRAGMENT_TESTS", "DEPTH_STENCIL_ATTACHMENT_WRITE",
                           "DepthStencilAttachmentOptimal">>}

(***************************************************************************)
(* C22.  When execute() has returned, each selected pass has been replayed *)
(* exactly once as one contiguous block of context calls: the commands     *)
(* reach the context in the order they were recorded, each once, no call   *)
(* of another pass lies inside the block, and the block is bracketed by    *)
(* render-pass calls: its first command is replayed as the one             *)
(* begin-render-pass call of the block (after that command's barriers) and *)
(* its last call is the one end_render_pass of the block.                  *)
(***************************************************************************)
BeginCalls == {"begin_render_pass", "begin_output_render_pass"}

\* The calls of pass p that are not barriers
CommandCallsOf(p) == CallsOf(p) \ BarriersOf(p)

Contiguous(S) == \A i \in S, j \in S : \A k \in i..j : k \in S

InRecordedOrder(p) ==
    /\ FullyReplayed(p)
    /\ \A i \in CallsOf(p), j \in CallsOf(p) : i < j => ctx[i].cmd <= ctx[j].cmd
    /\ \A c \in DOMAIN passes[p].cmds :
          Cardinality({i \in CommandCallsOf(p) : ctx[i].cmd = c}) = 1

Bracketed(p) ==
    /\ CommandCallsOf(p) # {}
    /\ \A i \in CommandCallsOf(p) :
          /\ ctx[i].call \in BeginCalls <=> \A j \in CommandCallsOf(p) : i <= j
          /\ ctx[i].call = "end_render_pass" <=> \A j \in CallsOf(p) : j <= i

C22_ContiguousBracketedBlocks ==
    pc = "done" =>
        \A p \in Selected :
            /\ Contiguous(CallsOf(p))
            /\ InRecordedOrder(p)
            /\ Bracketed(p)

\* The call a recorded command is replayed as is a begin (an end) exactly when
\* the command is BeginRenderPass (EndRenderPass)
BracketsAsRecorded(p) ==
    \A i \in CommandCallsOf(p) :
        /\ ctx[i].call \in BeginCalls <=> passes[p].cmds[ctx[i].cmd].op = "BeginRenderPass"
        /\ ctx[i].call = "end_render_pass" <=> passes[p].cmds[ctx[i].cmd].op = "EndRenderPass"

\* C22 as amended: contiguous blocks in recorded order, with a begin and an end
\* call exactly where the pass recorded one
C22_BlocksInRecordedOrder ==
    pc = "done" =>
        \A p \in Selected :
            Contiguous(CallsOf(p)) /\ InRecordedOrder(p) /\ BracketsAsRecorded(p)

C22_Witness ==
    /\ pc = "done"
    /\ Cardinality(Selected) = 3
    /\ \E p \in Selected :
          /\ Len(passes[p].cmds) >= 3
          /\ \A i \in CallsOf(p) : ctx[i].call \notin BeginCalls \cup {"end_render_pass"}
    /\ \E p \in Selected : Bracketed(p) /\ BarriersOf(p) # {}

(***************************************************************************)
(* C23.  An output render pass never resolves to a physical render pass or *)
(* framebuffer of the cache: its virtual id maps to the sentinel, which is *)
(* no index of the render-pass pool, it has no entry in the framebuffer    *)
(* map and no framebuffer is created for it (framebuffers are created for  *)
(* the other render passes only), and the begin command of a pass is       *)
(* replayed as begin_output_render_pass exactly when it targets an output  *)
(* render pass.                                                            *)
(***************************************************************************)
CreatedCalls(call) == {i \in DOMAIN device : device[i].call = call}

\* The virtual render pass the begin call at position i of ctx was recorded with
TargetOf(i) == passes[ctx[i].pass].cmds[ctx[i].cmd].render_pass

C23_OutputNeverPhysical ==
    /\ RenderPassesAllocated =>
          /\ \A id \in Outputs :
                /\ resource_map.render_pass_map[id] = OUTPUT_SENTINEL
                /\ resource_map.render_pass_map[id] \notin DOMAIN cache.render_passes
                /\ id \notin DOMAIN resource_map.framebuffer_map
          /\ DOMAIN resource_map.framebuffer_map = IdsOfKind("RenderPass")
          /\ Cardinality(CreatedCalls("create_framebuffer")) <= Cardinality(IdsOfKind("RenderPass"))
          /\ Cardinality(CreatedCalls("create_render_pass")) <= Cardinality(IdsOfKind("RenderPass"))
    /\ \A i \in DOMAIN ctx :
          ctx[i].call \in BeginCalls =>
              (ctx[i].call = "begin_output_render_pass" <=> TargetOf(i) \in Outputs)

C23_Witness ==
    /\ pc = "done"
    /\ \E i \in DOMAIN ctx : ctx[i].call = "begin_output_render_pass"
    /\ \E i \in DOMAIN ctx : ctx[i].call = "begin_render_pass"
    /\ cache.framebuffers # <<>>

(***************************************************************************)
(* C24.  Once the descriptor sets are allocated, two virtual descriptor    *)
(* sets of the same layout map to the same physical descriptor handle      *)
(* exactly when their bindings resolve to the same list of (binding index, *)
(* imported object or physical buffer / attachment index).                 *)
(***************************************************************************)
ResolvedBinding(x) ==
    LET b == x[2]
    IN CASE b.ty \in {"ImportedBuffer", "ImportedTexture"} ->
               <<x[1], "imported", imported_resources[b.id]>>
         [] b.ty \in {"Buffer", "MutableBuffer"} ->
               <<x[1], "buffer", resource_map.buffer_map[b.handle.id]>>
         [] b.ty = "Attachment" ->
               <<x[1], "attachment", resource_map.attachment_map[b.handle.id]>>

ResolvedBindings(d) ==
    [i \in DOMAIN owned_resources[d].bindings |-> ResolvedBinding(owned_resources[d].bindings[i])]

SameLayout(d, e) == owned_resources[d].descriptor_layout = owned_resources[e].descriptor_layout

C24_HandleByResolvedBindings ==
    DescriptorsAllocated =>
        \A d \in DescriptorIds, e \in DescriptorIds :
            SameLayout(d, e) =>
                (ResolvedBindings(d) = ResolvedBindings(e)
                    <=> resource_map.descriptor_map[d][1] = resource_map.descriptor_map[e][1])

C24_Witness ==
    /\ DescriptorsAllocated
    /\ \E d \in DescriptorIds, e \in DescriptorIds :
          /\ d # e
          /\ SameLayout(d, e)
          /\ ResolvedBindings(d) = ResolvedBindings(e)
          /\ resource_map.descriptor_map[d][1] = resource_map.descriptor_map[e][1]
    /\ \E d \in DescriptorIds, e \in DescriptorIds :
          /\ SameLayout(d, e)
          /\ Len(ResolvedBindings(d)) = Len(ResolvedBindings(e))
          /\ ResolvedBindings(d) # ResolvedBindings(e)
          /\ resource_map.descriptor_map[d][1] # resource_map.descriptor_map[e][1]

(***************************************************************************)
(* C25.  In every execute() the physical allocation proceeds in the order  *)
(* attachments and buffers, then render passes and framebuffers, then      *)
(* pipelines, and the descriptor sets are allocated and written last:      *)
(* once a render pass, framebuffer or pipeline has been created no         *)
(* attachment or buffer is, once a pipeline has been created no render     *)
(* pass or framebuffer is, and once a descriptor set has been written no   *)
(* pool of another category changes any more.                              *)
(***************************************************************************)
HasCreated(calls) == \E i \in DOMAIN device : device[i].call \in calls

DescriptorsWritten == \E i \in DOMAIN ctx : ctx[i].call = "update_descriptor"

AttachmentPoolsStay == cache'.attachments = cache.attachments /\ cache'.buffers = cache.buffers

RenderPassPoolsStay ==
    cache'.render_passes = cache.render_passes /\ cache'.framebuffers = cache.framebuffers

PipelinePoolStays == cache'.raster_pipelines = cache.raster_pipelines

DescriptorPoolsGrow ==
    \/ \E i \in DOMAIN ctx' : i > Len(ctx) /\ ctx'[i].call = "update_descriptor"
    \/ \E l \in DOMAIN cache.descriptor_heap_caches :
          cache'.descriptor_heap_caches[l].cache # cache.descriptor_heap_caches[l].cache

AllocationOrderStep ==
    /\ HasCreated({"create_render_pass", "create_framebuffer", "create_raster_pipeline"})
          => AttachmentPoolsStay
    /\ HasCreated({"create_raster_pipeline"}) => RenderPassPoolsStay

C25_DescriptorsLast ==
    [][/\ AllocationOrderStep
       /\ DescriptorsWritten => AttachmentPoolsStay /\ RenderPassPoolsStay /\ PipelinePoolStays]_vars

\* C25 as amended: the descriptor sets are allocated and written after the
\* attachments and buffers and before the render passes, framebuffers and
\* pipelines
C25_DescriptorsBeforeRenderPasses ==
    [][/\ AllocationOrderStep
       /\ DescriptorsWritten => AttachmentPoolsStay
       /\ HasCreated({"create_render_pass", "create_framebuffer", "create_raster_pipeline"})
             => ~DescriptorPoolsGrow]_vars

C25_Witness ==
    /\ pc = "alloc_render_passes"
    /\ DescriptorsWritten
    /\ cache.attachments # <<>>
    /\ cache.render_passes = <<>>
    /\ RenderPassIds # {}

(***************************************************************************)
(* C27.  add_descriptor_set adds the handle of every read-attachment and   *)
(* read-buffer binding to the read-sets of the pass being built and        *)
(* nothing else to them; imported-buffer and imported-texture bindings add *)
(* nothing to the read-sets nor to the write-sets.  add_render_pass adds   *)
(* every color and depth attachment to the write-set of the pass, with the *)
(* layout, stage and access of the handle set to the fixed values of a     *)
(* color or depth attachment output, and leaves the read-sets alone.       *)
(***************************************************************************)
Declared == Len(owned_resources') = Len(owned_resources) + 1 /\ recorded # <<>> /\ recorded' # <<>>

NewResource == owned_resources'[Len(owned_resources')]

\* The handles the bindings of variant ty of the new descriptor set hold
BoundHandles(ty) ==
    {NewResource.bindings[i][2].handle :
        i \in {j \in DOMAIN NewResource.bindings : NewResource.bindings[j][2].ty = ty}}

OnlyImported(r) ==
    \A i \in DOMAIN r.bindings : r.bindings[i][2].ty \in {"ImportedBuffer", "ImportedTexture"}

IsColorOutput(h) ==
    /\ h.layout = "ColorAttachmentOptimal"
    /\ h.stage = "COLOR_ATTACHMENT_OUTPUT"
    /\ h.access = "COLOR_ATTACHMENT_WRITE"

IsDepthOutput(h) ==
    /\ h.layout = "DepthStencilAttachmentOptimal"
    /\ h.stage = "LATE_FRAGMENT_TESTS"
    /\ h.access = "DEPTH_STENCIL_ATTACHMENT_WRITE"

DescriptorSetStep ==
    LET old == recorded[1]
        new == recorded'[1]
    IN /\ new.read_attachments = old.read_attachments \cup BoundHandles("Attachment")
       /\ new.read_buffers = old.read_buffers \cup BoundHandles("Buffer")
       /\ new.write_attachments = old.write_attachments
       /\ new.write_buffers = old.write_buffers \cup BoundHandles("MutableBuffer")
       /\ OnlyImported(NewResource) => new = old

RenderPassStep ==
    LET old == recorded[1]
        new == recorded'[1]
    IN /\ new.write_attachments =
              old.write_attachments \cup Range(NewResource.color_attachments)
                                    \cup Range(NewResource.depth_attachment)
       /\ \A h \in Range(NewResource.color_attachments) : IsColorOutput(h) /\ handles'[h.id] = h
       /\ \A h \in Range(NewResource.depth_attachment) : IsDepthOutput(h) /\ handles'[h.id] = h
       /\ new.read_attachments = old.read_attachments
       /\ new.read_buffers = old.read_buffers
       /\ new.write_buffers = old.write_buffers

C27_ReadAndWriteSets ==
    [][Declared =>
          /\ NewResource.kind = "DescriptorSet" => DescriptorSetStep
          /\ NewResource.kind = "RenderPass" => RenderPassStep]_vars

\* fullscreen with its output render pass, pipeline and descriptor sets declared:
\* two attachments, a buffer and an imported texture bound, after geometry and
\* cull wrote a depth and a color attachment
C27_Witness ==
    /\ Len(passes) = 2
    /\ recorded # <<>>
    /\ Cardinality(recorded[1].read_attachments) = 2
    /\ recorded[1].read_buffers # {}
    /\ [ty |-> "Texture", obj |-> "blue_noise"] \in Range(imported_resources)
    /\ \E h \in passes[1].write_attachments : IsDepthOutput(h)
    /\ \E h \in passes[2].write_attachments : IsColorOutput(h)

(***************************************************************************)
(* C28.  Importing the same caller-owned object (shader, mesh, buffer or   *)
(* texture) any number of times in one graph yields the same imported      *)
(* handle id each time: the id a builder call stores for an object is the  *)
(* index of that object in the imported-resource list, the list only grows *)
(* at its end, and it never contains two equal entries.                    *)
(***************************************************************************)
Imported(ty, obj) == [ty |-> ty, obj |-> obj]

ImportedListGrows ==
    /\ Len(imported_resources') >= Len(imported_resources)
    /\ \A i \in DOMAIN imported_resources : imported_resources'[i] = imported_resources[i]

\* The ids stored by the builder call of this step name the objects it was given
ImportedIdsResolve ==
    /\ NextCall.op = "add_descriptor_set" /\ Declared =>
          \A i \in DOMAIN NextCall.bindings :
              LET b == NextCall.bindings[i]
              IN /\ b.ty = "ImportedBuffer" =>
                        imported_resources'[NewResource.bindings[i][2].id] = Imported("Buffer", b.obj)
                 /\ b.ty = "ImportedTexture" =>
                        imported_resources'[NewResource.bindings[i][2].id] = Imported("Texture", b.obj)
    /\ NextCall.op = "add_raster_pipeline" /\ Declared =>
          imported_resources'[NewResource.vs] = Imported("Shader", NextCall.vs)
    /\ NextCall.op = "cmd_draw_mesh" /\ recorded' # recorded =>
          imported_resources'[recorded'[1].cmds[Len(recorded'[1].cmds)].mesh]
              = Imported("Mesh", NextCall.mesh)

C28_ImportDeduplicated ==
    /\ [](Injective(imported_resources))
    /\ [][pc = "build" => ImportedListGrows /\ ImportedIdsResolve]_vars

\* The shader, the camera buffer and the texture have each been imported more
\* than once
C28_Witness ==
    /\ pc = "done"
    /\ Cardinality({d \in DescriptorIds :
                       \E i \in DOMAIN owned_resources[d].bindings :
                           /\ owned_resources[d].bindings[i][2].ty = "ImportedTexture"
                           /\ imported_resources[owned_resources[d].bindings[i][2].id]
                                  = Imported("Texture", "blue_noise")}) = 2
    /\ Cardinality({d \in DescriptorIds :
                       \E i \in DOMAIN owned_resources[d].bindings :
                           /\ owned_resources[d].bindings[i][2].ty = "ImportedBuffer"
                           /\ imported_resources[owned_resources[d].bindings[i][2].id]
                                  = Imported("Buffer", "camera_uniform")}) = 2
    /\ Cardinality({q \in RasterPipelineIds :
                       imported_resources[owned_resources[q].vs] = Imported("Shader", "vs")}) = 2

(***************************************************************************)
(* C6.  update_descriptor is called exactly once for every descriptor-set  *)
(* handle of the graph, in the allocation phase, however many passes and   *)
(* commands bind the handle: once the descriptors are allocated the count  *)
(* is one and replay leaves it at one.                                     *)
(***************************************************************************)
C6_OneUpdatePerHandle ==
    /\ DescriptorsAllocated => \A d \in DescriptorIds : Cardinality(UpdatesFor(d)) = 1
    /\ ~DescriptorsAllocated => \A d \in DescriptorIds : UpdatesFor(d) = {}

\* A descriptor set that the commands of two passes have bound, written once
C6_Witness ==
    /\ pc = "done"
    /\ \E d \in DescriptorIds :
          /\ Cardinality(BindersOf(d)) >= 2
          /\ Cardinality(UpdatesFor(d)) = 1

(***************************************************************************)
(* C7.  Within one execute() no physical descriptor is written twice:      *)
(* update_descriptor is called once per distinct descriptor cache key,     *)
(* that is, once per layout and physical descriptor.                       *)
(***************************************************************************)
C7_OneUpdatePerKey ==
    \A i, j \in DOMAIN ctx :
        (/\ ctx[i].call = "update_descriptor"
         /\ ctx[j].call = "update_descriptor"
         /\ ctx[i].descriptor_layout = ctx[j].descriptor_layout
         /\ ctx[i].descriptor = ctx[j].descriptor) => i = j

(***************************************************************************)
(* Pools and demand.                                                       *)
(***************************************************************************)
\* The physical objects the pool of key k holds
Pool(c, k) == IF k \in AttachmentKeys THEN c.attachment_cache[k] ELSE c.buffer_cache[k]

RECURSIVE MaxDemand(_, _)
MaxDemand(log, k) == IF log = <<>> THEN 0 ELSE Max(log[1][k], MaxDemand(Tail(log), k))

\* The objects of key k created through the device by `call` in this execution
CreatedOf(dev, call, k) == Cardinality({i \in DOMAIN dev : dev[i].call = call /\ dev[i].key = k})

AttachmentsAllocated == pc \notin {"build", "panic_output", "stack_overflow", "alloc_attachments"}

(***************************************************************************)
(* C8.  From an empty cache, the execution of a graph with N virtual       *)
(* attachments of one cache key creates exactly N images of that key, and  *)
(* the next execution, with the same N of that key, creates none.          *)
(***************************************************************************)
C8_IdempotentCaching ==
    AttachmentsAllocated =>
        \A k \in AttachmentKeys :
            /\ Len(demands) = 1 => CreatedOf(device, "create_texture", k) = demands[1][k]
            /\ (Len(demands) = 2 /\ demands[2][k] = demands[1][k]) =>
                   CreatedOf(device, "create_texture", k) = 0

\* A second execution with the same two attachments of one key as the first
C8_Witness ==
    /\ pc = "done"
    /\ Len(demands) = 2
    /\ \E k \in AttachmentKeys : demands[1][k] = 2 /\ demands[2][k] = 2

(***************************************************************************)
(* C9.  After any sequence of executions every attachment pool and every   *)
(* buffer pool holds exactly as many objects as the largest demand any     *)
(* execution so far had for its key; a pool only ever grows at its end,    *)
(* and an execution creates exactly the objects its pools grow by (none    *)
(* when its demand is within the pool).                                    *)
(***************************************************************************)
PoolIsHighWater ==
    \A k \in AttachmentKeys \cup BufferKeys : Len(Pool(cache, k)) = MaxDemand(demands, k)

PoolStep ==
    \A k \in AttachmentKeys \cup BufferKeys :
        LET old == Pool(cache, k)
            new == Pool(cache', k)
            call == IF k \in AttachmentKeys THEN "create_texture" ELSE "create_empty_buffer"
        IN /\ Len(new) >= Len(old)
           /\ SubSeq(new, 1, Len(old)) = old
           /\ Len(new) > Len(old) => Len(new) = demands'[Len(demands')][k]
           /\ frame' = frame =>
                  CreatedOf(device', call, k) - CreatedOf(device, call, k) = Len(new) - Len(old)

C9_HighWaterMark == []PoolIsHighWater /\ [][PoolStep]_vars

\* A third execution that asks for one attachment of a key whose pool holds two
C9_Witness ==
    /\ pc = "done"
    /\ Len(demands) = 3
    /\ \E k \in AttachmentKeys :
          /\ demands[3][k] = 1
          /\ Len(Pool(cache, k)) = 2
          /\ CreatedOf(device, "create_texture", k) = 0

(***************************************************************************)
(* C32.  execute() allocates for every pass recorded in the graph, the     *)
(* passes the resolver left out included: once a kind of resource has been *)
(* allocated every virtual resource of that kind has a physical one, and   *)
(* once the descriptors are allocated every descriptor set has been        *)
(* written by update_descriptor; only the replayed commands are those of   *)
(* the selected passes alone.                                              *)
(***************************************************************************)
PhasesAfter(n) == {AllocationOrder[i] : i \in {j \in DOMAIN AllocationOrder : j > n}} \cup {"done"}

AllMapped(ids, map) == ids \subseteq DOMAIN map

LeftOut == DOMAIN passes \ Range(pass_order)

C32_AllocatesForEveryPass ==
    /\ pc \in PhasesAfter(1) \cup {"panic_descriptor_heap"} =>
           AllMapped(AttachmentIds, resource_map.attachment_map)
    /\ pc \in PhasesAfter(2) \cup {"panic_descriptor_heap"} =>
           AllMapped(BufferIds, resource_map.buffer_map)
    /\ pc \in PhasesAfter(3) =>
           /\ AllMapped(DescriptorIds, resource_map.descriptor_map)
           /\ \A d \in DescriptorIds : UpdatesFor(d) # {}
    /\ pc \in PhasesAfter(4) => AllMapped(RenderPassIds, resource_map.render_pass_map)
    /\ pc \in PhasesAfter(5) => AllMapped(RasterPipelineIds, resource_map.raster_pipeline_map)
    /\ \A i \in DOMAIN ctx : ctx[i].pass # 0 => ctx[i].pass \notin LeftOut

\* A pass that was left out owns an attachment and a descriptor set and holds
\* a command: both were allocated, the set was written, the command not replayed
C32_Witness ==
    /\ pc = "done"
    /\ \E p \in LeftOut :
          /\ passes[p].cmds # <<>>
          /\ \E a \in AttachmentIds : /\ resource_to_owning_pass[a] = p
                                       /\ a \in DOMAIN resource_map.attachment_map
                                       /\ \E i \in DOMAIN device : device[i].call = "create_texture"
          /\ \E d \in DescriptorIds : /\ resource_to_owning_pass[d] = p
                                       /\ d \in DOMAIN resource_map.descriptor_map
                                       /\ UpdatesFor(d) # {}

(***************************************************************************)
(* C33.  The update_descriptor call made for a descriptor set writes every *)
(* binding the set declares: each imported-buffer, imported-texture,       *)
(* graph-owned buffer and attachment binding appears, under its binding    *)
(* index, in the buffer list or in the image list of the call.             *)
(***************************************************************************)
WrittenBindings(call) == {x[1] : x \in Range(call.buffers) \cup Range(call.images)}

DeclaredBindings(d) ==
    {x[1] : x \in {y \in Range(owned_resources[d].bindings) :
                       y[2].ty \in {"ImportedBuffer", "ImportedTexture", "Buffer", "Attachment"}}}

C33_EveryBindingWritten ==
    \A i \in DOMAIN ctx :
        ctx[i].call = "update_descriptor" =>
            DeclaredBindings(ctx[i].virtual) \subseteq WrittenBindings(ctx[i])

(***************************************************************************)
(* C34.  A graph built by the same builder calls as the graph of the frame *)
(* before and executed against the same cache creates no physical object   *)
(* in any pool: nothing is created through the device, the cache is left   *)
(* as the frame before left it, and every virtual id is mapped to the      *)
(* physical index it was mapped to in the frame before.                    *)
(***************************************************************************)
SameGraphAsBefore ==
    /\ previous # <<>>
    /\ owned_resources = previous[1].owned_resources
    /\ imported_resources = previous[1].imported_resources

C34_SecondExecutionCreatesNothing ==
    (SameGraphAsBefore /\ pc \in PhasesAfter(0)) =>
        /\ device = <<>>
        /\ cache = previous[1].cache
        /\ pc \in {"replay", "done"} => resource_map = previous[1].resource_map

\* The frame code with a storage image, a texture and a twin descriptor set,
\* executed a second time: attachments of two keys, a buffer, descriptor
\* sets of three layouts, render passes and pipelines are all in the cache
C34_Witness ==
    /\ pc = "done" /\ frame = 2 /\ SameGraphAsBefore
    /\ Cardinality(AttachmentIds) >= 2 /\ BufferIds # {}
    /\ Cardinality(DescriptorIds) >= 3
    /\ IdsOfKind("RenderPass") # {} /\ RasterPipelineIds # {}
    /\ Len(cache.attachments) >= 2

(***************************************************************************)
(* C35.  Descriptors taken from the heap of a layout are never handed      *)
(* back: each heap has allocated exactly one descriptor per distinct       *)
(* descriptor cache key the layout has seen, over all executions, the      *)
(* allocated list and the keys only ever grow, and execute() ends in the   *)
(* panic of alloc_descriptor exactly when the keys a layout has seen and   *)
(* the keys of the graph are more than the max_sets descriptors of a heap. *)
(***************************************************************************)
HeapCaches(c) == c.descriptor_heap_caches

KeysSeen(c, l) == IF l \in DOMAIN HeapCaches(c) THEN DOMAIN HeapCaches(c)[l].cache ELSE {}

KeysOfGraph(l) ==
    {DescriptorKey(d, resource_map) :
        d \in {e \in DescriptorIds : owned_resources[e].descriptor_layout = l}}

OnePerKey(c) ==
    \A l \in DOMAIN HeapCaches(c) :
        LET h == HeapCaches(c)[l]
        IN /\ Len(h.heap.allocated_descriptors) = Cardinality(DOMAIN h.cache)
           /\ Range(h.heap.allocated_descriptors) = {h.cache[k] : k \in DOMAIN h.cache}
           /\ Len(h.heap.free_descriptors) = max_sets - Len(h.heap.allocated_descriptors)

NeverHandedBack ==
    \A l \in DOMAIN HeapCaches(cache) :
        /\ l \in DOMAIN HeapCaches(cache')
        /\ LET old == HeapCaches(cache)[l]
               new == HeapCaches(cache')[l]
           IN /\ Len(new.heap.allocated_descriptors) >= Len(old.heap.allocated_descriptors)
              /\ SubSeq(new.heap.allocated_descriptors, 1, Len(old.heap.allocated_descriptors))
                     = old.heap.allocated_descriptors
              /\ \A k \in DOMAIN old.cache : k \in DOMAIN new.cache /\ new.cache[k] = old.cache[k]

HeapExhausted ==
    \E l \in DescriptorLayouts : Cardinality(KeysSeen(cache, l) \cup KeysOfGraph(l)) > max_sets

C35_DescriptorsNeverReturned ==
    /\ []OnePerKey(cache)
    /\ [][NeverHandedBack]_vars
    /\ [](pc \in PhasesAfter(3) \cup {"panic_descriptor_heap"} =>
              (pc = "panic_descriptor_heap" <=> HeapExhausted))

\* The cache of earlier frames had one descriptor left and this frame's graph
\* declares sets of two keys it has not seen
C35_Witness ==
    /\ pc = "panic_descriptor_heap"
    /\ Len(HeapCaches(cache)["COMMON_DESC_INFO"].heap.allocated_descriptors) = max_sets
    /\ Cardinality(KeysSeen(cache, "COMMON_DESC_INFO") \cup KeysOfGraph("COMMON_DESC_INFO"))
           = max_sets + 1

(***************************************************************************)
(* C36.  Every bind_descriptor of the replay, made in frame slot f, binds  *)
(* a physical descriptor whose copy of slot f an update_descriptor call    *)
(* wrote earlier in the same execute(); and update_descriptor writes the   *)
(* copy of the slot of the open frame only, never the other slot's.        *)
(***************************************************************************)
WritesBefore(i) ==
    {j \in 1..(i - 1) : /\ ctx[j].call = "update_descriptor"
                        /\ ctx[j].descriptor_layout = ctx[i].descriptor_layout
                        /\ ctx[j].descriptor = ctx[i].descriptor
                        /\ ctx[j].frame = ctx[i].frame}

C36_BoundCopyWasWritten ==
    \A i \in DOMAIN ctx :
        /\ ctx[i].call = "bind_descriptor" => WritesBefore(i) # {} /\ ctx[i].frame = FrameIndex
        /\ ctx[i].call = "update_descriptor" => ctx[i].frame = FrameIndex

\* The second frame, in slot 1, binds a descriptor the first frame allocated
C36_Witness ==
    /\ pc = "done" /\ frame = 2 /\ SameGraphAsBefore
    /\ \E i \in DOMAIN ctx :
          /\ ctx[i].call = "bind_descriptor" /\ ctx[i].frame = 1
          /\ ctx[i].descriptor \in
                 Range(HeapCaches(previous[1].cache)[ctx[i].descriptor_layout].heap.allocated_descriptors)

(***************************************************************************)
(* C37.  Every destructor handed to queue_destruction is run exactly once: *)
(* it enters the queue of the frame slot that is current when it is        *)
(* queued, stays in that queue until that slot is acquired again or the    *)
(* device is destroyed, is run by that step, and is never run twice nor    *)
(* taken from a queue without being run.                                   *)
(***************************************************************************)
Destructors == 1..Len(awaited)

TimesQueued(pf, s, d) == Cardinality({i \in DOMAIN pf.destructors[s] : pf.destructors[s][i] = d})

TimesRun(r, d) == Cardinality({i \in DOMAIN r : r[i].id = d})

QueuedOrRunOnce ==
    \A d \in Destructors :
        /\ TimesRun(runs, d) \in {0, 1}
        /\ Cardinality({s \in FrameSlots : TimesQueued(per_frame, s, d) > 0}) = 1 - TimesRun(runs, d)
        /\ \A s \in FrameSlots : TimesQueued(per_frame, s, d) \in {0, 1}

DestructorStep ==
    /\ \A s \in FrameSlots, d \in Destructors :
          TimesQueued(per_frame, s, d) = 1 =>
              \/ TimesQueued(per_frame', s, d) = 1 /\ TimesRun(runs', d) = 0
              \/ /\ TimesRun(runs', d) = 1
                 /\ \/ swap_pc = "acquire_drain" /\ per_frame.frame = s
                    \/ swap_pc' = "destroyed"
    /\ Len(awaited') > Len(awaited) =>
          /\ Len(awaited') = Len(awaited) + 1
          /\ TimesQueued(per_frame', per_frame.frame, Len(awaited')) = 1
    /\ \A d \in Destructors : TimesRun(runs', d) >= TimesRun(runs, d)

C37_DestructorsRunOnce ==
    /\ []QueuedOrRunOnce
    /\ [][DestructorStep]_vars
    /\ [](swap_pc = "destroyed" => \A d \in Destructors : TimesRun(runs, d) = 1)

\* One destructor was run by the acquire of its slot while a frame was in
\* flight, another by the destruction of the device
C37_Witness ==
    /\ swap_pc = "destroyed"
    /\ Len(awaited) = 2 /\ Len(runs) = 2
    /\ runs[1].in_flight # {}
    /\ submitted >= 2

(***************************************************************************)
(* C38.  RenderGraphCache::destroy hands every physical object of every    *)
(* pool to the device: once it has returned, each attachment, buffer,      *)
(* render pass, framebuffer and raster pipeline the cache holds and each   *)
(* descriptor heap has been passed to its destroy call exactly once, and   *)
(* the descriptor layouts have been destroyed.                             *)
(***************************************************************************)
Destroyed(call, i) == Cardinality({j \in DOMAIN device : /\ device[j].call = call
                                                         /\ "index" \in DOMAIN device[j]
                                                         /\ device[j].index = i})

PoolDestroyed(call, pool) == \A i \in DOMAIN pool : Destroyed(call, i) = 1

C38_DestroyHandsOverEveryPool ==
    pc = "cache_destroyed" =>
        /\ PoolDestroyed("destroy_texture", cache.attachments)
        /\ PoolDestroyed("destroy_buffer", cache.buffers)
        /\ PoolDestroyed("destroy_render_pass", cache.render_passes)
        /\ PoolDestroyed("destroy_framebuffer", cache.framebuffers)
        /\ PoolDestroyed("destroy_pipeline", cache.raster_pipelines)
        /\ \A l \in DOMAIN cache.descriptor_heap_caches :
              Cardinality({j \in DOMAIN device : /\ device[j].call = "destroy_descriptor_heap"
                                                 /\ device[j].key = l}) = 1
        /\ \E j \in DOMAIN device : device[j].call = "destroy_descriptor_layout_cache"

(***************************************************************************)
(* C39.  After any sequence of executions every index a cache map holds is *)
(* a valid index of its pool, every index of the attachment pool and of    *)
(* the buffer pool is listed under exactly one cache key, once, and no     *)
(* entry of a pool is removed or replaced: the pools only grow at the end. *)
(***************************************************************************)
IndicesValid(c) ==
    /\ \A k \in AttachmentKeys : Range(c.attachment_cache[k]) \subseteq DOMAIN c.attachments
    /\ \A k \in BufferKeys : Range(c.buffer_cache[k]) \subseteq DOMAIN c.buffers
    /\ \A k \in DOMAIN c.render_pass_cache : c.render_pass_cache[k] \in DOMAIN c.render_passes
    /\ \A k \in DOMAIN c.framebuffer_cache : c.framebuffer_cache[k] \in DOMAIN c.framebuffers
    /\ \A k \in DOMAIN c.raster_pipeline_cache :
          c.raster_pipeline_cache[k] \in DOMAIN c.raster_pipelines

\* The places <<key, position>> at which pool index i is listed
Listings(lists, i) ==
    UNION {{<<k, j>> : j \in {n \in DOMAIN lists[k] : lists[k][n] = i}} : k \in DOMAIN lists}

ListedOnce(c) ==
    /\ \A i \in DOMAIN c.attachments : Cardinality(Listings(c.attachment_cache, i)) = 1
    /\ \A i \in DOMAIN c.buffers : Cardinality(Listings(c.buffer_cache, i)) = 1

GrowsAtEnd(old, new) == Len(new) >= Len(old) /\ SubSeq(new, 1, Len(old)) = old

PoolsOnlyGrow ==
    /\ GrowsAtEnd(cache.attachments, cache'.attachments)
    /\ GrowsAtEnd(cache.buffers, cache'.buffers)
    /\ GrowsAtEnd(cache.render_passes, cache'.render_passes)
    /\ GrowsAtEnd(cache.framebuffers, cache'.framebuffers)
    /\ GrowsAtEnd(cache.raster_pipelines, cache'.raster_pipelines)

C39_CacheIndicesValid ==
    /\ [](IndicesValid(cache) /\ ListedOnce(cache))
    /\ [][PoolsOnlyGrow]_vars

\* A later frame, with attachments of two keys, a buffer, render passes,
\* framebuffers and pipelines in the pools
C39_Witness ==
    /\ frame = 2 /\ pc = "done"
    /\ Cardinality({cache.attachments[i] : i \in DOMAIN cache.attachments}) >= 2
    /\ cache.buffers # <<>>
    /\ Len(cache.render_passes) >= 2 /\ Len(cache.framebuffers) >= 2
    /\ cache.raster_pipelines # <<>>


(***************************************************************************)
(* C40: after any sequence of alloc and free calls on a descriptor heap    *)
(* the free list and the allocated list are disjoint and together hold     *)
(* every id of 0..max_sets - 1 exactly once; alloc returns None exactly    *)
(* when the free list is empty; free panics exactly when the id it is      *)
(* given is not allocated at that moment.                                  *)
(***************************************************************************)
HeapPartition ==
    /\ Len(descriptor_heap.free_descriptors) + Len(descriptor_heap.allocated_descriptors)
           = max_sets
    /\ Range(descriptor_heap.free_descriptors) \cup Range(descriptor_heap.allocated_descriptors)
           = 0..(max_sets - 1)

HeapCallStep ==
    heap_calls' # heap_calls =>
        LET c == heap_calls'[Len(heap_calls')]
        IN /\ c.call = "alloc" =>
                  /\ c.some <=> descriptor_heap.free_descriptors # <<>>
                  /\ c.some => c.id \in Range(descriptor_heap.free_descriptors)
                  /\ ~c.some => descriptor_heap' = descriptor_heap
           /\ c.call = "free" =>
                  /\ c.panic <=> c.id \notin Range(descriptor_heap.allocated_descriptors)
                  /\ c.panic => descriptor_heap' = descriptor_heap

C40_HeapListsPartitionIds == []HeapPartition /\ [][HeapCallStep]_vars

C40_Witness ==
    /\ \E i \in DOMAIN heap_calls : heap_calls[i].call = "alloc" /\ ~heap_calls[i].some
    /\ \E i \in DOMAIN heap_calls :
          heap_calls[i].call = "free" /\ ~heap_calls[i].panic
    /\ \E i \in DOMAIN heap_calls : heap_calls[i].call = "free" /\ heap_calls[i].panic
    /\ HeapPartition

====
